---- MODULE Spec2Model ----
(***************************************************************************)
(* EmailForge: CSV/TSV translations -> multi-locale Liquid e-mail          *)
(* template (csv_translations_to_email.py), with the companion price-      *)
(* alerts loader (csv_to_price_alerts_email.py).                           *)
(*                                                                         *)
(* Strings are sequences of one-character strings, so that strip, lower    *)
(* and replace are computed as Python computes them.  Long literal runs    *)
(* of markup whose inner characters no operation inspects are written as   *)
(* one atom (for instance the name inside a placeholder token).            *)
(***************************************************************************)
EXTENDS Integers, Sequences, FiniteSets, TLC

(***************************************************************************)
(* Python string and dict primitives                                       *)
(***************************************************************************)

\* the value csv.DictReader stores for a cell missing from a short row
None == << "<None>" >>

SetMin(S) == CHOOSE x \in S : \A y \in S : x <= y

SetMax(S) == CHOOSE x \in S : \A y \in S : x >= y

Range(s) == { s[i] : i \in 1..Len(s) }

UpperChars ==
  << "A","B","C","D","E","F","G","H","I","J","K","L","M",
     "N","O","P","Q","R","S","T","U","V","W","X","Y","Z" >>

LowerChars ==
  << "a","b","c","d","e","f","g","h","i","j","k","l","m",
     "n","o","p","q","r","s","t","u","v","w","x","y","z" >>

\* str.isspace on one character
IsSpace(c) == c \in { " ", "\t" }

LowerChar(c) ==
  IF \E i \in 1..26 : UpperChars[i] = c
  THEN LowerChars[CHOOSE i \in 1..26 : UpperChars[i] = c]
  ELSE c

\* str.lower
lower(s) == [ i \in 1..Len(s) |-> LowerChar(s[i]) ]

\* str.strip
strip(s) ==
  LET keep == { i \in 1..Len(s) : ~IsSpace(s[i]) }
  IN  IF keep = {} THEN << >> ELSE SubSeq(s, SetMin(keep), SetMax(keep))

\* position of the leftmost occurrence of old in s at or after from, 0 if none
NextMatch(s, old, from) ==
  LET hits == { i \in from..(Len(s) - Len(old) + 1) :
                  s[i] = old[1] /\ SubSeq(s, i, i + Len(old) - 1) = old }
  IN  IF hits = {} THEN 0 ELSE SetMin(hits)

RECURSIVE ReplaceFrom(_, _, _, _)
ReplaceFrom(s, old, new, from) ==
  LET i == NextMatch(s, old, from)
  IN  IF i = 0 THEN SubSeq(s, from, Len(s))
      ELSE SubSeq(s, from, i - 1) \o new \o ReplaceFrom(s, old, new, i + Len(old))

\* str.replace(old, new) for a non-empty old: leftmost, non-overlapping
replace(s, old, new) == ReplaceFrom(s, old, new, 1)

\* the Python test  sub in s
contains(s, sub) == NextMatch(s, sub, 1) # 0

\* list.index, 0-based as in Python
index(list, x) == SetMin({ i \in 1..Len(list) : list[i] = x }) - 1

\* x or ""
OrEmpty(x) == IF x = None THEN << >> ELSE x

EmptyDict == [ k \in {} |-> << >> ]

\* d.get(k, default)
Get(d, k, default) == IF k \in DOMAIN d THEN d[k] ELSE default

\* d[k] = v
Put(d, k, v) == [ x \in (DOMAIN d) \cup {k} |-> IF x = k THEN v ELSE d[x] ]

\* "\n".join(lines)
RECURSIVE join(_)
join(lines) ==
  IF lines = << >> THEN << >>
  ELSE IF Len(lines) = 1 THEN lines[1]
  ELSE lines[1] \o << "\n" >> \o join(Tail(lines))

(***************************************************************************)
(* Module-level constants of csv_translations_to_email.py                  *)
(***************************************************************************)

LOCALE_COLUMNS ==
  << <<"e","n">>, <<"a","r">>, <<"z","h","-","c","n">>, <<"z","h","-","t","w">>, <<"z","h","-","h","k">>, <<"h","r">>,
     <<"c","s">>, <<"d","a">>, <<"n","l">>, <<"e","n","-","g","b">>, <<"f","i","l">>, <<"f","i">>,
     <<"f","r">>, <<"f","r","-","c","a">>, <<"d","e">>, <<"e","l">>, <<"h","e">>, <<"h","u">>,
     <<"i","d">>, <<"i","t">>, <<"j","a">>, <<"k","o">>, <<"m","s">>, <<"n","o">>,
     <<"p","l">>, <<"p","t">>, <<"p","t","-","b","r">>, <<"r","o">>, <<"r","u">>, <<"e","s">>,
     <<"e","s","-","4","1","9">>, <<"s","v">>, <<"t","h">>, <<"t","r">>, <<"u","k">>, <<"v","i">> >>

LOCALE_PRESET_TOP_5 ==
  << <<"e","n">>, <<"e","s">>, <<"f","r">>, <<"j","a">>, <<"a","r">>, <<"p","t","-","b","r">> >>

TRANSLATABLE_KEYS ==
  << <<"s","u","b","j","e","c","t","_","l","i","n","e">>, <<"p","r","e","h","e","a","d","e","r">>,
     <<"h","e","a","d","l","i","n","e">>, <<"h","e","a","d","l","i","n","e","_","2">>,
     <<"s","e","c","o","n","d","a","r","y","_","h","e","a","d","l","i","n","e">>, <<"b","o","d","y","_","1">>,
     <<"b","o","d","y","_","2">>, <<"c","t","a","_","t","e","x","t">>,
     <<"a","p","p","_","d","o","w","n","l","o","a","d","_","t","i","t","l","e">>, <<"a","p","p","_","d","o","w","n","l","o","a","d","_","f","e","a","t","u","r","e","_","1">>,
     <<"a","p","p","_","d","o","w","n","l","o","a","d","_","f","e","a","t","u","r","e","_","2">>, <<"a","p","p","_","d","o","w","n","l","o","a","d","_","f","e","a","t","u","r","e","_","3">>,
     <<"h","e","r","o","_","t","w","o","_","c","o","l","_","b","o","d","y","_","1","_","h","2">>, <<"h","e","r","o","_","t","w","o","_","c","o","l","_","b","o","d","y","_","1","_","c","o","p","y">>,
     <<"h","e","r","o","_","t","w","o","_","c","o","l","_","b","o","d","y","_","2","_","h","2">>, <<"h","e","r","o","_","t","w","o","_","c","o","l","_","b","o","d","y","_","2","_","c","o","p","y">>,
     <<"h","e","r","o","_","t","w","o","_","c","o","l","_","b","o","d","y","_","3","_","h","2">>, <<"h","e","r","o","_","t","w","o","_","c","o","l","_","b","o","d","y","_","3","_","c","o","p","y">>,
     <<"h","e","r","o","_","t","w","o","_","c","o","l","_","b","o","d","y","_","4","_","h","2">>, <<"h","e","r","o","_","t","w","o","_","c","o","l","_","b","o","d","y","_","4","_","c","o","p","y">>,
     <<"h","e","r","o","_","t","w","o","_","c","o","l","_","c","t","a","_","t","e","x","t">>, <<"t","e","r","m","s","_","t","i","t","l","e">>,
     <<"t","e","r","m","s","_","d","e","s","c","_","t","e","x","t">>, <<"t","e","r","m","s","_","l","a","b","e","l">>,
     <<"p","r","i","v","a","c","y","_","l","a","b","e","l">>, <<"u","s","p","_","t","i","t","l","e">>,
     <<"u","s","p","_","1","_","h","e","a","d","i","n","g">>, <<"u","s","p","_","1","_","c","o","p","y">>,
     <<"u","s","p","_","2","_","h","e","a","d","i","n","g">>, <<"u","s","p","_","2","_","c","o","p","y">>,
     <<"u","s","p","_","3","_","h","e","a","d","i","n","g">>, <<"u","s","p","_","3","_","c","o","p","y">>,
     <<"u","s","p","_","f","e","a","t","u","r","e","_","t","i","t","l","e">>, <<"u","s","p","_","f","e","a","t","u","r","e","_","1","_","h","e","a","d","i","n","g">>,
     <<"u","s","p","_","f","e","a","t","u","r","e","_","1","_","c","o","p","y">>, <<"u","s","p","_","f","e","a","t","u","r","e","_","2","_","h","e","a","d","i","n","g">>,
     <<"u","s","p","_","f","e","a","t","u","r","e","_","2","_","c","o","p","y">>, <<"u","s","p","_","f","e","a","t","u","r","e","_","3","_","h","e","a","d","i","n","g">>,
     <<"u","s","p","_","f","e","a","t","u","r","e","_","3","_","c","o","p","y">>, <<"u","s","p","_","u","i","_","t","i","t","l","e">>,
     <<"u","s","p","_","u","i","_","1","_","h","e","a","d","i","n","g">>, <<"u","s","p","_","u","i","_","1","_","c","o","p","y">>,
     <<"u","s","p","_","u","i","_","2","_","h","e","a","d","i","n","g">>, <<"u","s","p","_","u","i","_","2","_","c","o","p","y">>,
     <<"u","s","p","_","u","i","_","3","_","h","e","a","d","i","n","g">>, <<"u","s","p","_","u","i","_","3","_","c","o","p","y">> >>

STRUCTURE_KEYS ==
  << <<"i","m","a","g","e","_","u","r","l">>, <<"i","m","a","g","e","_","u","r","l","_","m","o","b","i","l","e">>,
     <<"i","m","a","g","e","_","d","e","e","p","l","i","n","k">>, <<"c","t","a","_","l","i","n","k">>,
     <<"c","t","a","_","a","l","i","a","s">>, <<"a","p","p","_","s","t","o","r","e","_","r","a","t","i","n","g">>,
     <<"g","o","o","g","l","e","_","p","l","a","y","_","r","a","t","i","n","g">>, <<"a","p","p","_","d","o","w","n","l","o","a","d","_","c","o","l","o","u","r">>,
     <<"h","e","r","o","_","t","w","o","_","c","o","l","_","i","m","a","g","e","_","1","_","u","r","l">>, <<"h","e","r","o","_","t","w","o","_","c","o","l","_","i","m","a","g","e","_","2","_","u","r","l">>,
     <<"h","e","r","o","_","t","w","o","_","c","o","l","_","i","m","a","g","e","_","3","_","u","r","l">>, <<"h","e","r","o","_","t","w","o","_","c","o","l","_","i","m","a","g","e","_","4","_","u","r","l">>,
     <<"u","s","p","_","1","_","i","c","o","n","_","u","r","l">>, <<"u","s","p","_","2","_","i","c","o","n","_","u","r","l">>,
     <<"u","s","p","_","3","_","i","c","o","n","_","u","r","l">>, <<"u","s","p","_","f","e","a","t","u","r","e","_","1","_","i","m","a","g","e","_","u","r","l">>,
     <<"u","s","p","_","f","e","a","t","u","r","e","_","2","_","i","m","a","g","e","_","u","r","l">>, <<"u","s","p","_","f","e","a","t","u","r","e","_","3","_","i","m","a","g","e","_","u","r","l">>,
     <<"u","s","p","_","u","i","_","1","_","i","m","a","g","e","_","u","r","l">>, <<"u","s","p","_","u","i","_","2","_","i","m","a","g","e","_","u","r","l">>,
     <<"u","s","p","_","u","i","_","3","_","i","m","a","g","e","_","u","r","l">> >>

MODULE_KEY_MAP ==
  { << <<"h","e","r","o","_","m","o","d","u","l","e">>,
       <<"s","u","b","j","e","c","t","_","l","i","n","e">>,
       <<"s","u","b","j","e","c","t","_","l","i","n","e">> >>,
    << <<"h","e","r","o","_","m","o","d","u","l","e">>,
       <<"p","r","e","h","e","a","d","e","r">>,
       <<"p","r","e","h","e","a","d","e","r">> >>,
    << <<"h","e","r","o","_","m","o","d","u","l","e">>,
       <<"h","e","a","d","l","i","n","e">>,
       <<"h","e","a","d","l","i","n","e">> >>,
    << <<"h","e","r","o","_","m","o","d","u","l","e">>,
       <<"b","o","d","y","_","1">>,
       <<"b","o","d","y","_","1">> >>,
    << <<"h","e","r","o","_","m","o","d","u","l","e">>,
       <<"b","o","d","y","_","2">>,
       <<"b","o","d","y","_","2">> >>,
    << <<"h","e","r","o","_","m","o","d","u","l","e">>,
       <<"c","t","a","_","t","e","x","t">>,
       <<"c","t","a","_","t","e","x","t">> >>,
    << <<"h","e","r","o","_","m","o","d","u","l","e">>,
       <<"i","m","a","g","e","_","u","r","l">>,
       <<"i","m","a","g","e","_","u","r","l">> >>,
    << <<"h","e","r","o","_","m","o","d","u","l","e">>,
       <<"i","m","a","g","e","_","u","r","l","_","m","o","b","i","l","e">>,
       <<"i","m","a","g","e","_","u","r","l","_","m","o","b","i","l","e">> >>,
    << <<"h","e","r","o","_","m","o","d","u","l","e">>,
       <<"i","m","a","g","e","_","d","e","e","p","l","i","n","k">>,
       <<"i","m","a","g","e","_","d","e","e","p","l","i","n","k">> >>,
    << <<"h","e","r","o","_","m","o","d","u","l","e">>,
       <<"c","t","a","_","l","i","n","k">>,
       <<"c","t","a","_","l","i","n","k">> >>,
    << <<"h","e","r","o","_","m","o","d","u","l","e">>,
       <<"c","t","a","_","a","l","i","a","s">>,
       <<"c","t","a","_","a","l","i","a","s">> >>,
    << <<"h","e","r","o","_","m","o","d","u","l","e","_","t","w","o","_","c","o","l","u","m","n">>,
       <<"s","u","b","j","e","c","t","_","l","i","n","e">>,
       <<"s","u","b","j","e","c","t","_","l","i","n","e">> >>,
    << <<"h","e","r","o","_","m","o","d","u","l","e","_","t","w","o","_","c","o","l","u","m","n">>,
       <<"p","r","e","h","e","a","d","e","r">>,
       <<"p","r","e","h","e","a","d","e","r">> >>,
    << <<"h","e","r","o","_","m","o","d","u","l","e","_","t","w","o","_","c","o","l","u","m","n">>,
       <<"h","e","a","d","l","i","n","e">>,
       <<"h","e","a","d","l","i","n","e">> >>,
    << <<"h","e","r","o","_","m","o","d","u","l","e","_","t","w","o","_","c","o","l","u","m","n">>,
       <<"s","u","b","h","e","a","d","l","i","n","e">>,
       <<"s","e","c","o","n","d","a","r","y","_","h","e","a","d","l","i","n","e">> >>,
    << <<"h","e","r","o","_","m","o","d","u","l","e","_","t","w","o","_","c","o","l","u","m","n">>,
       <<"b","o","d","y","_","1","_","h","2">>,
       <<"h","e","r","o","_","t","w","o","_","c","o","l","_","b","o","d","y","_","1","_","h","2">> >>,
    << <<"h","e","r","o","_","m","o","d","u","l","e","_","t","w","o","_","c","o","l","u","m","n">>,
       <<"b","o","d","y","_","1","_","c","o","p","y">>,
       <<"h","e","r","o","_","t","w","o","_","c","o","l","_","b","o","d","y","_","1","_","c","o","p","y">> >>,
    << <<"h","e","r","o","_","m","o","d","u","l","e","_","t","w","o","_","c","o","l","u","m","n">>,
       <<"i","m","a","g","e","_","1","_","u","r","l">>,
       <<"h","e","r","o","_","t","w","o","_","c","o","l","_","i","m","a","g","e","_","1","_","u","r","l">> >>,
    << <<"h","e","r","o","_","m","o","d","u","l","e","_","t","w","o","_","c","o","l","u","m","n">>,
       <<"b","o","d","y","_","2","_","h","2">>,
       <<"h","e","r","o","_","t","w","o","_","c","o","l","_","b","o","d","y","_","2","_","h","2">> >>,
    << <<"h","e","r","o","_","m","o","d","u","l","e","_","t","w","o","_","c","o","l","u","m","n">>,
       <<"b","o","d","y","_","2","_","c","o","p","y">>,
       <<"h","e","r","o","_","t","w","o","_","c","o","l","_","b","o","d","y","_","2","_","c","o","p","y">> >>,
    << <<"h","e","r","o","_","m","o","d","u","l","e","_","t","w","o","_","c","o","l","u","m","n">>,
       <<"i","m","a","g","e","_","2","_","u","r","l">>,
       <<"h","e","r","o","_","t","w","o","_","c","o","l","_","i","m","a","g","e","_","2","_","u","r","l">> >>,
    << <<"h","e","r","o","_","m","o","d","u","l","e","_","t","w","o","_","c","o","l","u","m","n">>,
       <<"b","o","d","y","_","3","_","h","2">>,
       <<"h","e","r","o","_","t","w","o","_","c","o","l","_","b","o","d","y","_","3","_","h","2">> >>,
    << <<"h","e","r","o","_","m","o","d","u","l","e","_","t","w","o","_","c","o","l","u","m","n">>,
       <<"b","o","d","y","_","3","_","c","o","p","y">>,
       <<"h","e","r","o","_","t","w","o","_","c","o","l","_","b","o","d","y","_","3","_","c","o","p","y">> >>,
    << <<"h","e","r","o","_","m","o","d","u","l","e","_","t","w","o","_","c","o","l","u","m","n">>,
       <<"i","m","a","g","e","_","3","_","u","r","l">>,
       <<"h","e","r","o","_","t","w","o","_","c","o","l","_","i","m","a","g","e","_","3","_","u","r","l">> >>,
    << <<"h","e","r","o","_","m","o","d","u","l","e","_","t","w","o","_","c","o","l","u","m","n">>,
       <<"b","o","d","y","_","4","_","h","2">>,
       <<"h","e","r","o","_","t","w","o","_","c","o","l","_","b","o","d","y","_","4","_","h","2">> >>,
    << <<"h","e","r","o","_","m","o","d","u","l","e","_","t","w","o","_","c","o","l","u","m","n">>,
       <<"b","o","d","y","_","4","_","c","o","p","y">>,
       <<"h","e","r","o","_","t","w","o","_","c","o","l","_","b","o","d","y","_","4","_","c","o","p","y">> >>,
    << <<"h","e","r","o","_","m","o","d","u","l","e","_","t","w","o","_","c","o","l","u","m","n">>,
       <<"i","m","a","g","e","_","4","_","u","r","l">>,
       <<"h","e","r","o","_","t","w","o","_","c","o","l","_","i","m","a","g","e","_","4","_","u","r","l">> >>,
    << <<"h","e","r","o","_","m","o","d","u","l","e","_","t","w","o","_","c","o","l","u","m","n">>,
       <<"c","t","a","_","t","e","x","t">>,
       <<"h","e","r","o","_","t","w","o","_","c","o","l","_","c","t","a","_","t","e","x","t">> >>,
    << <<"h","e","r","o","_","m","o","d","u","l","e","_","t","w","o","_","c","o","l","u","m","n">>,
       <<"h","e","r","o","_","i","m","a","g","e","_","u","r","l">>,
       <<"i","m","a","g","e","_","u","r","l">> >>,
    << <<"h","e","r","o","_","m","o","d","u","l","e","_","t","w","o","_","c","o","l","u","m","n">>,
       <<"i","m","a","g","e","_","d","e","e","p","l","i","n","k">>,
       <<"i","m","a","g","e","_","d","e","e","p","l","i","n","k">> >>,
    << <<"h","e","r","o","_","m","o","d","u","l","e","_","t","w","o","_","c","o","l","u","m","n">>,
       <<"c","t","a","_","l","i","n","k">>,
       <<"c","t","a","_","l","i","n","k">> >>,
    << <<"h","e","r","o","_","m","o","d","u","l","e","_","t","w","o","_","c","o","l","u","m","n">>,
       <<"c","t","a","_","a","l","i","a","s">>,
       <<"c","t","a","_","a","l","i","a","s">> >>,
    << <<"a","p","p","_","d","o","w","n","l","o","a","d","_","m","o","d","u","l","e">>,
       <<"h","e","a","d","l","i","n","e">>,
       <<"a","p","p","_","d","o","w","n","l","o","a","d","_","t","i","t","l","e">> >>,
    << <<"a","p","p","_","d","o","w","n","l","o","a","d","_","m","o","d","u","l","e">>,
       <<"f","e","a","t","u","r","e","_","1">>,
       <<"a","p","p","_","d","o","w","n","l","o","a","d","_","f","e","a","t","u","r","e","_","1">> >>,
    << <<"a","p","p","_","d","o","w","n","l","o","a","d","_","m","o","d","u","l","e">>,
       <<"f","e","a","t","u","r","e","_","2">>,
       <<"a","p","p","_","d","o","w","n","l","o","a","d","_","f","e","a","t","u","r","e","_","2">> >>,
    << <<"a","p","p","_","d","o","w","n","l","o","a","d","_","m","o","d","u","l","e">>,
       <<"f","e","a","t","u","r","e","_","3">>,
       <<"a","p","p","_","d","o","w","n","l","o","a","d","_","f","e","a","t","u","r","e","_","3">> >>,
    << <<"a","p","p","_","d","o","w","n","l","o","a","d","_","m","o","d","u","l","e">>,
       <<"c","o","l","o","u","r">>,
       <<"a","p","p","_","d","o","w","n","l","o","a","d","_","c","o","l","o","u","r">> >>,
    << <<"a","p","p","_","d","o","w","n","l","o","a","d","_","m","o","d","u","l","e">>,
       <<"c","o","l","o","r">>,
       <<"a","p","p","_","d","o","w","n","l","o","a","d","_","c","o","l","o","u","r">> >>,
    << <<"d","i","s","c","l","a","i","m","e","r","_","m","o","d","u","l","e">>,
       <<"t","e","r","m","s","_","t","i","t","l","e">>,
       <<"t","e","r","m","s","_","t","i","t","l","e">> >>,
    << <<"d","i","s","c","l","a","i","m","e","r","_","m","o","d","u","l","e">>,
       <<"t","e","r","m","s","_","d","e","s","c">>,
       <<"t","e","r","m","s","_","d","e","s","c","_","t","e","x","t">> >>,
    << <<"d","i","s","c","l","a","i","m","e","r","_","m","o","d","u","l","e">>,
       <<"t","e","r","m","s","_","d","e","s","c","_","t","e","x","t">>,
       <<"t","e","r","m","s","_","d","e","s","c","_","t","e","x","t">> >>,
    << <<"d","i","s","c","l","a","i","m","e","r","_","m","o","d","u","l","e">>,
       <<"t","e","r","m","s","_","l","a","b","e","l">>,
       <<"t","e","r","m","s","_","l","a","b","e","l">> >>,
    << <<"d","i","s","c","l","a","i","m","e","r","_","m","o","d","u","l","e">>,
       <<"p","r","i","v","a","c","y","_","l","a","b","e","l">>,
       <<"p","r","i","v","a","c","y","_","l","a","b","e","l">> >>,
    << <<"i","c","o","n","_","l","e","f","t","_","t","e","x","t","_","r","i","g","h","t","_","m","o","d","u","l","e">>,
       <<"t","i","t","l","e">>,
       <<"u","s","p","_","t","i","t","l","e">> >>,
    << <<"i","c","o","n","_","l","e","f","t","_","t","e","x","t","_","r","i","g","h","t","_","m","o","d","u","l","e">>,
       <<"u","s","p","_","1","_","h","e","a","d","i","n","g">>,
       <<"u","s","p","_","1","_","h","e","a","d","i","n","g">> >>,
    << <<"i","c","o","n","_","l","e","f","t","_","t","e","x","t","_","r","i","g","h","t","_","m","o","d","u","l","e">>,
       <<"u","s","p","_","1","_","c","o","p","y">>,
       <<"u","s","p","_","1","_","c","o","p","y">> >>,
    << <<"i","c","o","n","_","l","e","f","t","_","t","e","x","t","_","r","i","g","h","t","_","m","o","d","u","l","e">>,
       <<"u","s","p","_","1","_","i","c","o","n","_","u","r","l">>,
       <<"u","s","p","_","1","_","i","c","o","n","_","u","r","l">> >>,
    << <<"i","c","o","n","_","l","e","f","t","_","t","e","x","t","_","r","i","g","h","t","_","m","o","d","u","l","e">>,
       <<"u","s","p","_","2","_","h","e","a","d","i","n","g">>,
       <<"u","s","p","_","2","_","h","e","a","d","i","n","g">> >>,
    << <<"i","c","o","n","_","l","e","f","t","_","t","e","x","t","_","r","i","g","h","t","_","m","o","d","u","l","e">>,
       <<"u","s","p","_","2","_","c","o","p","y">>,
       <<"u","s","p","_","2","_","c","o","p","y">> >>,
    << <<"i","c","o","n","_","l","e","f","t","_","t","e","x","t","_","r","i","g","h","t","_","m","o","d","u","l","e">>,
       <<"u","s","p","_","2","_","i","c","o","n","_","u","r","l">>,
       <<"u","s","p","_","2","_","i","c","o","n","_","u","r","l">> >>,
    << <<"i","c","o","n","_","l","e","f","t","_","t","e","x","t","_","r","i","g","h","t","_","m","o","d","u","l","e">>,
       <<"u","s","p","_","3","_","h","e","a","d","i","n","g">>,
       <<"u","s","p","_","3","_","h","e","a","d","i","n","g">> >>,
    << <<"i","c","o","n","_","l","e","f","t","_","t","e","x","t","_","r","i","g","h","t","_","m","o","d","u","l","e">>,
       <<"u","s","p","_","3","_","c","o","p","y">>,
       <<"u","s","p","_","3","_","c","o","p","y">> >>,
    << <<"i","c","o","n","_","l","e","f","t","_","t","e","x","t","_","r","i","g","h","t","_","m","o","d","u","l","e">>,
       <<"u","s","p","_","3","_","i","c","o","n","_","u","r","l">>,
       <<"u","s","p","_","3","_","i","c","o","n","_","u","r","l">> >>,
    << <<"t","e","x","t","_","l","e","f","t","_","i","m","a","g","e","_","r","i","g","h","t","_","m","o","d","u","l","e">>,
       <<"t","i","t","l","e">>,
       <<"u","s","p","_","f","e","a","t","u","r","e","_","t","i","t","l","e">> >>,
    << <<"t","e","x","t","_","l","e","f","t","_","i","m","a","g","e","_","r","i","g","h","t","_","m","o","d","u","l","e">>,
       <<"u","s","p","_","f","e","a","t","u","r","e","_","1","_","h","e","a","d","i","n","g">>,
       <<"u","s","p","_","f","e","a","t","u","r","e","_","1","_","h","e","a","d","i","n","g">> >>,
    << <<"t","e","x","t","_","l","e","f","t","_","i","m","a","g","e","_","r","i","g","h","t","_","m","o","d","u","l","e">>,
       <<"u","s","p","_","f","e","a","t","u","r","e","_","1","_","c","o","p","y">>,
       <<"u","s","p","_","f","e","a","t","u","r","e","_","1","_","c","o","p","y">> >>,
    << <<"t","e","x","t","_","l","e","f","t","_","i","m","a","g","e","_","r","i","g","h","t","_","m","o","d","u","l","e">>,
       <<"u","s","p","_","f","e","a","t","u","r","e","_","1","_","i","m","a","g","e","_","u","r","l">>,
       <<"u","s","p","_","f","e","a","t","u","r","e","_","1","_","i","m","a","g","e","_","u","r","l">> >>,
    << <<"t","e","x","t","_","l","e","f","t","_","i","m","a","g","e","_","r","i","g","h","t","_","m","o","d","u","l","e">>,
       <<"u","s","p","_","f","e","a","t","u","r","e","_","2","_","h","e","a","d","i","n","g">>,
       <<"u","s","p","_","f","e","a","t","u","r","e","_","2","_","h","e","a","d","i","n","g">> >>,
    << <<"t","e","x","t","_","l","e","f","t","_","i","m","a","g","e","_","r","i","g","h","t","_","m","o","d","u","l","e">>,
       <<"u","s","p","_","f","e","a","t","u","r","e","_","2","_","c","o","p","y">>,
       <<"u","s","p","_","f","e","a","t","u","r","e","_","2","_","c","o","p","y">> >>,
    << <<"t","e","x","t","_","l","e","f","t","_","i","m","a","g","e","_","r","i","g","h","t","_","m","o","d","u","l","e">>,
       <<"u","s","p","_","f","e","a","t","u","r","e","_","2","_","i","m","a","g","e","_","u","r","l">>,
       <<"u","s","p","_","f","e","a","t","u","r","e","_","2","_","i","m","a","g","e","_","u","r","l">> >>,
    << <<"t","e","x","t","_","l","e","f","t","_","i","m","a","g","e","_","r","i","g","h","t","_","m","o","d","u","l","e">>,
       <<"u","s","p","_","f","e","a","t","u","r","e","_","3","_","h","e","a","d","i","n","g">>,
       <<"u","s","p","_","f","e","a","t","u","r","e","_","3","_","h","e","a","d","i","n","g">> >>,
    << <<"t","e","x","t","_","l","e","f","t","_","i","m","a","g","e","_","r","i","g","h","t","_","m","o","d","u","l","e">>,
       <<"u","s","p","_","f","e","a","t","u","r","e","_","3","_","c","o","p","y">>,
       <<"u","s","p","_","f","e","a","t","u","r","e","_","3","_","c","o","p","y">> >>,
    << <<"t","e","x","t","_","l","e","f","t","_","i","m","a","g","e","_","r","i","g","h","t","_","m","o","d","u","l","e">>,
       <<"u","s","p","_","f","e","a","t","u","r","e","_","3","_","i","m","a","g","e","_","u","r","l">>,
       <<"u","s","p","_","f","e","a","t","u","r","e","_","3","_","i","m","a","g","e","_","u","r","l">> >>,
    << <<"a","l","t","e","r","n","a","t","i","n","g","_","t","e","x","t","_","i","m","a","g","e","_","m","o","d","u","l","e">>,
       <<"t","i","t","l","e">>,
       <<"u","s","p","_","u","i","_","t","i","t","l","e">> >>,
    << <<"a","l","t","e","r","n","a","t","i","n","g","_","t","e","x","t","_","i","m","a","g","e","_","m","o","d","u","l","e">>,
       <<"u","s","p","_","u","i","_","1","_","h","e","a","d","i","n","g">>,
       <<"u","s","p","_","u","i","_","1","_","h","e","a","d","i","n","g">> >>,
    << <<"a","l","t","e","r","n","a","t","i","n","g","_","t","e","x","t","_","i","m","a","g","e","_","m","o","d","u","l","e">>,
       <<"u","s","p","_","u","i","_","1","_","c","o","p","y">>,
       <<"u","s","p","_","u","i","_","1","_","c","o","p","y">> >>,
    << <<"a","l","t","e","r","n","a","t","i","n","g","_","t","e","x","t","_","i","m","a","g","e","_","m","o","d","u","l","e">>,
       <<"u","s","p","_","u","i","_","1","_","i","m","a","g","e","_","u","r","l">>,
       <<"u","s","p","_","u","i","_","1","_","i","m","a","g","e","_","u","r","l">> >>,
    << <<"a","l","t","e","r","n","a","t","i","n","g","_","t","e","x","t","_","i","m","a","g","e","_","m","o","d","u","l","e">>,
       <<"u","s","p","_","u","i","_","2","_","h","e","a","d","i","n","g">>,
       <<"u","s","p","_","u","i","_","2","_","h","e","a","d","i","n","g">> >>,
    << <<"a","l","t","e","r","n","a","t","i","n","g","_","t","e","x","t","_","i","m","a","g","e","_","m","o","d","u","l","e">>,
       <<"u","s","p","_","u","i","_","2","_","c","o","p","y">>,
       <<"u","s","p","_","u","i","_","2","_","c","o","p","y">> >>,
    << <<"a","l","t","e","r","n","a","t","i","n","g","_","t","e","x","t","_","i","m","a","g","e","_","m","o","d","u","l","e">>,
       <<"u","s","p","_","u","i","_","2","_","i","m","a","g","e","_","u","r","l">>,
       <<"u","s","p","_","u","i","_","2","_","i","m","a","g","e","_","u","r","l">> >>,
    << <<"a","l","t","e","r","n","a","t","i","n","g","_","t","e","x","t","_","i","m","a","g","e","_","m","o","d","u","l","e">>,
       <<"u","s","p","_","u","i","_","3","_","h","e","a","d","i","n","g">>,
       <<"u","s","p","_","u","i","_","3","_","h","e","a","d","i","n","g">> >>,
    << <<"a","l","t","e","r","n","a","t","i","n","g","_","t","e","x","t","_","i","m","a","g","e","_","m","o","d","u","l","e">>,
       <<"u","s","p","_","u","i","_","3","_","c","o","p","y">>,
       <<"u","s","p","_","u","i","_","3","_","c","o","p","y">> >>,
    << <<"a","l","t","e","r","n","a","t","i","n","g","_","t","e","x","t","_","i","m","a","g","e","_","m","o","d","u","l","e">>,
       <<"u","s","p","_","u","i","_","3","_","i","m","a","g","e","_","u","r","l">>,
       <<"u","s","p","_","u","i","_","3","_","i","m","a","g","e","_","u","r","l">> >> }

PRICE_ALERTS_KEYS ==
  << <<"s","u","b","j","e","c","t","_","l","i","n","e">>, <<"p","r","e","h","e","a","d","e","r">>,
     <<"h","e","a","d","l","i","n","e">>, <<"b","o","d","y","_","1">>,
     <<"b","o","d","y","_","2">>, <<"c","t","a","_","t","e","x","t">> >>

(***************************************************************************)
(* Header handling: get_csv_locales and the first half of load_translations *)
(***************************************************************************)

S_en == << "e", "n" >>

S_module == << "m","o","d","u","l","e" >>

S_module_index == << "m","o","d","u","l","e","_","i","n","d","e","x" >>

\* use_module_format with the two header cells compared as written
UseModuleFormat_AsWritten(flds) ==
  /\ Len(flds) >= 3
  /\ flds[2] = S_module
  /\ flds[3] = S_module_index

\* use_module_format, computed alike by get_csv_locales and load_translations
UseModuleFormat(flds) ==
  /\ Len(flds) >= 3
  /\ lower(strip(flds[2])) = S_module
  /\ replace(lower(strip(flds[3])), << " " >>, << >>) = S_module_index

\* locale_start (0-based index of the first locale column)
LocaleStart(flds) == IF UseModuleFormat(flds) THEN 3 ELSE 1

\* fields[locale_start:]
LocaleHeaders(flds) == SubSeq(flds, LocaleStart(flds) + 1, Len(flds))

\* the test of get_csv_locales: loc == key or norm == knorm
CsvLocaleMatches(loc, key) ==
  \/ loc = key
  \/ lower(replace(loc, << "-" >>, << "_" >>))
       = replace(replace(lower(key), << "-" >>, << "_" >>), << " " >>, << >>)

\* get_csv_locales on a file whose header row is flds (<< >>: no header row)
get_csv_locales(flds) ==
  LET locale_headers == SelectSeq(LocaleHeaders(flds), LAMBDA h : strip(h) # << >>)
      header_norms == { strip(h) : h \in Range(locale_headers) }
      found == SelectSeq(LOCALE_COLUMNS,
                 LAMBDA loc : \E key \in header_norms : CsvLocaleMatches(loc, key))
      positional == SelectSeq([ i \in 1..Len(locale_headers) |-> strip(locale_headers[i]) ],
                 LAMBDA hc : hc \in Range(LOCALE_COLUMNS))
      found2 == IF found = << >> /\ locale_headers # << >> THEN positional ELSE found
  IN  IF found2 # << >> THEN found2 ELSE << S_en >>

\* hnorm of load_translations
HeaderNorm(h) ==
  replace(replace(lower(strip(h)), << " " >>, << >>), << "_" >>, << "-" >>)

\* loc == hnorm or loc.replace("-", "_") == hnorm.replace("-", "_")
HeaderMatches(loc, h) ==
  LET hnorm == HeaderNorm(h)
  IN  \/ loc = hnorm
      \/ replace(loc, << "-" >>, << "_" >>) = replace(hnorm, << "-" >>, << "_" >>)

\* NamedHeader with the header compared as written, its normalisation left out
NamedHeader_Exact(loc, locale_headers) ==
  LET hits == { i \in 1..Len(locale_headers) :
                  locale_headers[i] # << >> /\ loc = locale_headers[i] }
  IN  IF hits = {} THEN None ELSE locale_headers[SetMin(hits)]

\* the header the inner for-loop binds to loc, or None when it finds none
NamedHeader(loc, locale_headers) ==
  LET hits == { i \in 1..Len(locale_headers) :
                  locale_headers[i] # << >> /\ HeaderMatches(loc, locale_headers[i]) }
  IN  IF hits = {} THEN None ELSE locale_headers[SetMin(hits)]

\* the positional fallback: LOCALE_COLUMNS.index(loc)-th locale header, stripped
PositionalHeader(loc, locale_headers) ==
  IF loc \in Range(LOCALE_COLUMNS)
  THEN LET idx == index(LOCALE_COLUMNS, loc)
       IN  IF idx < Len(locale_headers) /\ strip(locale_headers[idx + 1]) # << >>
           THEN strip(locale_headers[idx + 1])
           ELSE None
  ELSE None

\* locale_to_header as built by load_translations (absent locales are not keys)
LocaleToHeader(locs, flds) ==
  LET locale_headers == LocaleHeaders(flds)
      pick(loc) == IF NamedHeader(loc, locale_headers) # None
                   THEN NamedHeader(loc, locale_headers)
                   ELSE PositionalHeader(loc, locale_headers)
  IN  [ loc \in { l \in Range(locs) : pick(l) # None } |-> pick(loc) ]

(***************************************************************************)
(* Rows: csv.DictReader and the body of the row loop                       *)
(***************************************************************************)

\* row.get(header, default) of the dict DictReader builds from a row:
\* the last column carrying that name wins, cells missing from a short row
\* are None
RowGet(flds, row, header, default) ==
  LET cols == { i \in 1..Len(flds) : flds[i] = header }
  IN  IF cols = {} THEN default
      ELSE IF SetMax(cols) <= Len(row) THEN row[SetMax(cols)] ELSE None

\* (cell or "").strip().lower().replace(" ", "")
NormCell(cell) == replace(lower(strip(OrEmpty(cell))), << " " >>, << >>)

\* key_raw
KeyRaw(flds, row) == NormCell(RowGet(flds, row, flds[1], None))

\* module_raw ("" when there is no module column)
ModuleRaw(flds, row) ==
  IF UseModuleFormat(flds) THEN NormCell(RowGet(flds, row, flds[2], << >>)) ELSE << >>

\* the cell read for loc before .strip() is applied to it:
\* row.get(header, "") if header else ""
RawValue(flds, l2h, row, loc) ==
  IF loc \in DOMAIN l2h /\ l2h[loc] # << >>
  THEN RowGet(flds, row, l2h[loc], << >>)
  ELSE << >>

\* .strip() on a None cell raises AttributeError
RowRaises(flds, l2h, locs, row) ==
  \E loc \in Range(locs) : RawValue(flds, l2h, row, loc) = None

\* values_by_locale
ValuesByLocale(flds, l2h, locs, row) ==
  [ loc \in Range(locs) |-> strip(RawValue(flds, l2h, row, loc)) ]

\* MODULE_KEY_MAP.get((module, field)), None when absent
MapGet(module, field) ==
  IF \E e \in MODULE_KEY_MAP : e[1] = module /\ e[2] = field
  THEN (CHOOSE e \in MODULE_KEY_MAP : e[1] = module /\ e[2] = field)[3]
  ELSE None

\* ModuleSlot without the second attempt
ModuleSlot_NoRetry(module_raw, key_raw) == MapGet(module_raw, key_raw)

\* the two lookups of the module branch: the pair as it is, then the pair
\* with the underscores of the field removed; None when both miss
ModuleSlot(module_raw, key_raw) ==
  IF MapGet(module_raw, key_raw) # None
  THEN MapGet(module_raw, key_raw)
  ELSE MapGet(module_raw, replace(key_raw, << "_" >>, << >>))

\* InternalKey that keeps the row's own key when the module lookup misses
InternalKey_KeepUnmapped(use_module_format, module_raw, key_raw) ==
  IF use_module_format /\ module_raw # << >> /\ ModuleSlot(module_raw, key_raw) # None
  THEN ModuleSlot(module_raw, key_raw)
  ELSE key_raw

\* internal_key of a row, None when the row is skipped
InternalKey(use_module_format, module_raw, key_raw) ==
  IF use_module_format /\ module_raw # << >>
  THEN ModuleSlot(module_raw, key_raw)
  ELSE key_raw

\* the structure branch of the row loop
StoreStructure(struct, internal_key, vals, locs) ==
  LET hits == { i \in 1..Len(locs) : strip(vals[locs[i]]) # << >> }
      s1 == IF hits = {} THEN struct
            ELSE Put(struct, internal_key, strip(vals[locs[SetMin(hits)]]))
  IN  IF internal_key \notin DOMAIN s1
      THEN Put(s1, internal_key, strip(Get(vals, S_en, << >>)))
      ELSE s1

\* Backfill that stores the cells as read
Backfill_None(vals, locs) == vals

\* the translations branch: blank entries take the en value
Backfill(vals, locs) ==
  LET en_val == strip(Get(vals, S_en, << >>))
  IN  [ loc \in DOMAIN vals |-> IF strip(vals[loc]) = << >> THEN en_val ELSE vals[loc] ]

(***************************************************************************)
(* Escaping and URL helpers                                                *)
(***************************************************************************)

\* _escape_liquid_raw without its second replacement
EscapeLiquidRaw_OpenOnly(s) ==
  replace(s, << "{","%" >>, << "{","{"," ","'","{","%","'"," ","}","}" >>)

\* _escape_liquid_raw
EscapeLiquidRaw(s) ==
  replace(replace(s, << "{","%" >>, << "{","{"," ","'","{","%","'"," ","}","}" >>),
          << "%","}" >>, << "{","{"," ","'","%","}","'"," ","}","}" >>)

\* _html_escape
HtmlEscape(s) ==
  replace(replace(replace(replace(s,
    << "&" >>, << "&","a","m","p",";" >>),
    << "<" >>, << "&","l","t",";" >>),
    << ">" >>, << "&","g","t",";" >>),
    << "\"" >>, << "&","q","u","o","t",";" >>)

\* _normalise_url
NormaliseUrl(url) ==
  LET u == strip(url)
  IN  IF u = << >> THEN << >>
      ELSE IF ~contains(u, << ":","/","/" >>)
           THEN << "h","t","t","p","s",":","/","/" >> \o u
           ELSE u

(***************************************************************************)
(* Placeholder tokens and BASE_TEMPLATE.  The name between "{{ " and " }}" *)
(* is one atom; the literal Liquid/HTML between two placeholders is one    *)
(* atom as well.                                                           *)
(***************************************************************************)

Placeholder(name) == << "{","{"," ", name, " ","}","}" >>

PLACEHOLDER_DESIGN_TOKENS == Placeholder("DESIGN_TOKENS")

PLACEHOLDER_APP_DOWNLOAD_SETTINGS == Placeholder("APP_DOWNLOAD_SETTINGS")

PLACEHOLDER_CONTENT_CAPTURES == Placeholder("CONTENT_CAPTURES")

PLACEHOLDER_ROWS_ABOVE_IMAGE == Placeholder("ROWS_ABOVE_IMAGE")

PLACEHOLDER_IMAGE_ROW == Placeholder("IMAGE_ROW")

PLACEHOLDER_ROWS_BELOW_IMAGE == Placeholder("ROWS_BELOW_IMAGE")

PLACEHOLDER_HERO_TWO_COLUMN_MODULE == Placeholder("HERO_TWO_COLUMN_MODULE")

PLACEHOLDER_APP_DOWNLOAD_MODULE == Placeholder("APP_DOWNLOAD_MODULE")

PLACEHOLDER_ICON_LEFT_TEXT_RIGHT_MODULE == Placeholder("ICON_LEFT_TEXT_RIGHT_MODULE")

PLACEHOLDER_TEXT_LEFT_IMAGE_RIGHT_MODULE == Placeholder("TEXT_LEFT_IMAGE_RIGHT_MODULE")

PLACEHOLDER_ALTERNATING_TEXT_IMAGE_MODULE == Placeholder("ALTERNATING_TEXT_IMAGE_MODULE")

PLACEHOLDER_CONFIG == Placeholder("CONFIG_BLOCK")

PLACEHOLDER_LINKS == Placeholder("LINKS_BLOCK")

PLACEHOLDER_TERMS_DEFAULTS == Placeholder("TERMS_DEFAULTS_BLOCK")

\* the 14 tokens
Placeholders ==
  { PLACEHOLDER_DESIGN_TOKENS, PLACEHOLDER_APP_DOWNLOAD_SETTINGS, PLACEHOLDER_CONTENT_CAPTURES,
    PLACEHOLDER_ROWS_ABOVE_IMAGE, PLACEHOLDER_IMAGE_ROW, PLACEHOLDER_ROWS_BELOW_IMAGE,
    PLACEHOLDER_HERO_TWO_COLUMN_MODULE, PLACEHOLDER_APP_DOWNLOAD_MODULE,
    PLACEHOLDER_ICON_LEFT_TEXT_RIGHT_MODULE, PLACEHOLDER_TEXT_LEFT_IMAGE_RIGHT_MODULE,
    PLACEHOLDER_ALTERNATING_TEXT_IMAGE_MODULE, PLACEHOLDER_CONFIG, PLACEHOLDER_LINKS,
    PLACEHOLDER_TERMS_DEFAULTS }


(***************************************************************************)
(* Content keys named by the fragment builders                             *)
(***************************************************************************)

S_headline == << "h","e","a","d","l","i","n","e" >>

S_image_url == << "i","m","a","g","e","_","u","r","l" >>

S_headline_2 == << "h","e","a","d","l","i","n","e","_","2" >>

S_secondary_headline == << "s","e","c","o","n","d","a","r","y","_","h","e","a","d","l","i","n","e" >>

S_body_1 == << "b","o","d","y","_","1" >>

S_body_2 == << "b","o","d","y","_","2" >>

S_cta_text == << "c","t","a","_","t","e","x","t" >>

S_cta_link == << "c","t","a","_","l","i","n","k" >>

S_cta_alias == << "c","t","a","_","a","l","i","a","s" >>

S_image_url_mobile == << "i","m","a","g","e","_","u","r","l","_","m","o","b","i","l","e" >>

S_image_deeplink == << "i","m","a","g","e","_","d","e","e","p","l","i","n","k" >>

S_hero_two_col_body_1_h2 == << "h","e","r","o","_","t","w","o","_","c","o","l","_","b","o","d","y","_","1","_","h","2" >>

S_app_download_title == << "a","p","p","_","d","o","w","n","l","o","a","d","_","t","i","t","l","e" >>

S_usp_title == << "u","s","p","_","t","i","t","l","e" >>

S_usp_feature_title == << "u","s","p","_","f","e","a","t","u","r","e","_","t","i","t","l","e" >>

S_usp_ui_title == << "u","s","p","_","u","i","_","t","i","t","l","e" >>

S_app_store_rating == << "a","p","p","_","s","t","o","r","e","_","r","a","t","i","n","g" >>

S_google_play_rating == << "g","o","o","g","l","e","_","p","l","a","y","_","r","a","t","i","n","g" >>

S_hero_two_col_image_1_url == << "h","e","r","o","_","t","w","o","_","c","o","l","_","i","m","a","g","e","_","1","_","u","r","l" >>

S_hero_two_col_image_2_url == << "h","e","r","o","_","t","w","o","_","c","o","l","_","i","m","a","g","e","_","2","_","u","r","l" >>

S_hero_two_col_image_3_url == << "h","e","r","o","_","t","w","o","_","c","o","l","_","i","m","a","g","e","_","3","_","u","r","l" >>

S_hero_two_col_image_4_url == << "h","e","r","o","_","t","w","o","_","c","o","l","_","i","m","a","g","e","_","4","_","u","r","l" >>

S_usp_1_icon_url == << "u","s","p","_","1","_","i","c","o","n","_","u","r","l" >>

S_usp_2_icon_url == << "u","s","p","_","2","_","i","c","o","n","_","u","r","l" >>

S_usp_3_icon_url == << "u","s","p","_","3","_","i","c","o","n","_","u","r","l" >>

S_usp_feature_1_image_url == << "u","s","p","_","f","e","a","t","u","r","e","_","1","_","i","m","a","g","e","_","u","r","l" >>

S_usp_feature_2_image_url == << "u","s","p","_","f","e","a","t","u","r","e","_","2","_","i","m","a","g","e","_","u","r","l" >>

S_usp_feature_3_image_url == << "u","s","p","_","f","e","a","t","u","r","e","_","3","_","i","m","a","g","e","_","u","r","l" >>

S_usp_ui_1_image_url == << "u","s","p","_","u","i","_","1","_","i","m","a","g","e","_","u","r","l" >>

S_usp_ui_2_image_url == << "u","s","p","_","u","i","_","2","_","i","m","a","g","e","_","u","r","l" >>

S_usp_ui_3_image_url == << "u","s","p","_","u","i","_","3","_","i","m","a","g","e","_","u","r","l" >>

(***************************************************************************)
(* Fragment builders.  A Liquid output expression is written character by  *)
(* character around its variable name; other literal markup is one atom    *)
(* per run.                                                                *)
(***************************************************************************)

\* {{ <expr> }} as it stands in generated markup
\* LiquidOut that emits the bare expression, without the output braces
LiquidOut_Bare(expr) == << expr >>

\* {{ <expr> }}
LiquidOut(expr) == << "{","{"," ", expr, " ","}","}" >>

\* {%- <tag> -%}
LiquidTag(tag) == << "{","%","-"," " >> \o tag \o << " ","-","%","}" >>

\* the header logo row of the skeleton, guarded by the flag the two assigns
\* and the first if compute
BaseHeaderLogo ==
  LiquidTag(<< "assign", " ", "_show_header_logo_raw", " = show_header_logo | default: \"TRUE\" | downcase | strip" >>)
  \o LiquidTag(<< "assign", " ", "_show_header_logo", " = true" >>)
  \o LiquidTag(<< "if", " ", "_show_header_logo", "_raw == \"false\" or _show_header_logo_raw == \"0\" or _show_header_logo_raw == \"\"" >>)
  \o LiquidTag(<< "assign", " ", "_show_header_logo", " = false" >>)
  \o LiquidTag(<< "endif" >>)
  \o << "\n" >> \o LiquidTag(<< "if", " ", "_show_header_logo" >>)
  \o << "<header logo row>" >>
  \o LiquidTag(<< "endif" >>)

\* the footer table of the skeleton, guarded by show_footer
BaseFooter ==
  LiquidTag(<< "if", " ", "show_footer", " == \"TRUE\"" >>)
  \o << "<footer>" >>
  \o LiquidTag(<< "assign", " ", "footer_app_line_html", " = footer_app_line | replace: \". \", \"<br />\" | replace: \".\", \"\"" >>)
  \o LiquidOut("footer_app_line_html | strip")
  \o << "</footer>" >>
  \o LiquidTag(<< "endif" >>)

\* the terms table of the skeleton, guarded by show_terms
BaseTerms ==
  LiquidTag(<< "if", " ", "show_terms", " == \"TRUE\"" >>)
  \o << "<terms>" >>
  \o LiquidOut("terms_title | strip")
  \o << "<terms desc>" >>
  \o LiquidOut("terms_desc_html")
  \o << "</terms>" >>
  \o LiquidTag(<< "endif" >>)

\* the skeleton: each token once, in the order of the source
BASE_TEMPLATE ==
  << "<base:locale setup>" >> \o PLACEHOLDER_LINKS
  \o << "\n" >> \o PLACEHOLDER_DESIGN_TOKENS
  \o << "\n" >> \o PLACEHOLDER_CONFIG
  \o << "\n" >> \o PLACEHOLDER_APP_DOWNLOAD_SETTINGS
  \o << "\n" >> \o PLACEHOLDER_CONTENT_CAPTURES
  \o << "<base:footer captures>" >> \o PLACEHOLDER_TERMS_DEFAULTS
  \o << "<base:head>" >> \o BaseHeaderLogo \o << "\n" >> \o PLACEHOLDER_ROWS_ABOVE_IMAGE
  \o << "<base:image cell>" >> \o PLACEHOLDER_IMAGE_ROW
  \o << "<base:body table>" >> \o PLACEHOLDER_ROWS_BELOW_IMAGE
  \o << "\n" >> \o PLACEHOLDER_HERO_TWO_COLUMN_MODULE
  \o << "\n" >> \o PLACEHOLDER_ICON_LEFT_TEXT_RIGHT_MODULE
  \o << "\n" >> \o PLACEHOLDER_TEXT_LEFT_IMAGE_RIGHT_MODULE
  \o << "\n" >> \o PLACEHOLDER_ALTERNATING_TEXT_IMAGE_MODULE
  \o << "\n" >> \o PLACEHOLDER_APP_DOWNLOAD_MODULE
  \o << "<base:close body table>" >> \o BaseFooter
  \o << "<base:close card>" >> \o BaseTerms
  \o << "<base:end>" >>

\* the lines build_content_captures emits for one key
CaptureBlock(key, vals, locs) ==
  LET en == strip(Get(vals, S_en, << >>))
      v(loc) == IF strip(Get(vals, loc, << >>)) # << >>
                THEN strip(Get(vals, loc, << >>)) ELSE en
      when(loc) == << " "," "," "," " >> \o LiquidTag(<< "when"," ","\"" >> \o loc \o << "\"" >>)
                   \o EscapeLiquidRaw(v(loc))
  IN  << LiquidTag(<< "capture"," " >> \o key),
         << " "," " >> \o LiquidTag(<< "case"," ","locale_key" >>) >>
      \o [ i \in 1..Len(locs) |-> when(locs[i]) ]
      \o << << " "," "," "," " >> \o LiquidTag(<< "else" >>) \o EscapeLiquidRaw(en),
            << " "," " >> \o LiquidTag(<< "endcase" >>),
            LiquidTag(<< "endcapture" >>) >>

\* the list  lines  of build_content_captures after the keys TRANSLATABLE_KEYS[i..]
RECURSIVE CaptureLines(_, _, _)
CaptureLines(trans, locs, i) ==
  IF i > Len(TRANSLATABLE_KEYS) THEN << >>
  ELSE (IF TRANSLATABLE_KEYS[i] \in DOMAIN trans
        THEN CaptureBlock(TRANSLATABLE_KEYS[i], trans[TRANSLATABLE_KEYS[i]], locs)
        ELSE << >>) \o CaptureLines(trans, locs, i + 1)

\* build_content_captures that writes a clause for every locale of
\* LOCALE_COLUMNS whatever list is requested
build_content_captures_AllLocales(trans, locs) ==
  join(CaptureLines(trans, LOCALE_COLUMNS, 1))

\* build_content_captures; an empty include_locales means LOCALE_COLUMNS
build_content_captures(trans, locs) ==
  join(CaptureLines(trans, IF locs = << >> THEN LOCALE_COLUMNS ELSE locs, 1))

\* build_rows_above_image
build_rows_above_image(trans) ==
  LET has_headline == S_headline \in DOMAIN trans
      has_h2 == S_headline_2 \in DOMAIN trans
      has_sh == S_secondary_headline \in DOMAIN trans
      is_two_col == S_hero_two_col_body_1_h2 \in DOMAIN trans
      two == << << "  <td two-col>" >> >>
             \o (IF has_sh THEN << << "    <p 30px>" >> \o LiquidOut("secondary_headline | strip") \o << "</p>" >> >> ELSE << >>)
             \o (IF has_headline
                 THEN << << "    <table headline-box>" >>,
                         << "      <h1 48px>" >> \o LiquidOut("headline | strip") \o << "</h1>" >>,
                         << "    </td></tr></table>" >> >>
                 ELSE << >>)
      one == << << "  <td>" >> >>
             \o (IF has_headline THEN << << "    <h1 32px>" >> \o LiquidOut("headline | strip") \o << "</h1>" >> >> ELSE << >>)
             \o (IF has_h2 THEN << << "    <p 22px>" >> \o LiquidOut("headline_2 | strip") \o << "</p>" >> >> ELSE << >>)
             \o (IF has_sh THEN << << "    <p 16px>" >> \o LiquidOut("secondary_headline | strip") \o << "</p>" >> >> ELSE << >>)
  IN  IF ~(has_headline \/ has_h2 \/ has_sh) THEN << >>
      ELSE join(<< << "<tr>" >> >> \o (IF is_two_col THEN two ELSE one)
                \o << << "  </td>" >>, << "</tr>" >> >>)

\* build_image_row that falls back to the mobile image when image_url is empty
build_image_row_MobileFallback(struct) ==
  LET mobile == strip(Get(struct, S_image_url_mobile, << >>))
      img_url == IF strip(Get(struct, S_image_url, << >>)) # << >>
                 THEN strip(Get(struct, S_image_url, << >>)) ELSE mobile
      img_mobile == IF mobile # << >> THEN mobile ELSE img_url
      img_link == NormaliseUrl(Get(struct, S_image_deeplink, << >>))
      a_open == << "<a href=\"" >> \o HtmlEscape(img_link) \o << "\" target=_blank>" >>
      img(url) == << "<img src=\"" >> \o HtmlEscape(url) \o << "\" ", "img_attrs", " />" >>
      wrap_a(url) == (IF img_link # << >> THEN a_open ELSE << >>) \o img(url)
                     \o (IF img_link # << >> THEN << "</a>" >> ELSE << >>)
  IN  IF img_url = << >> THEN << >>
      ELSE IF img_mobile # img_url
           THEN << "<span class=\"email-img-desktop\">" >> \o wrap_a(img_url) \o << "</span>" >>
                \o << "<span class=\"email-img-mobile\">" >> \o wrap_a(img_mobile) \o << "</span>" >>
      ELSE IF img_link # << >> THEN a_open \o img(img_url) \o << "</a>" >>
      ELSE img(img_url)

\* build_image_row
build_image_row(struct) ==
  LET img_url == strip(Get(struct, S_image_url, << >>))
      mobile == strip(Get(struct, S_image_url_mobile, << >>))
      img_mobile == IF mobile # << >> THEN mobile ELSE img_url
      img_link == NormaliseUrl(Get(struct, S_image_deeplink, << >>))
      a_open == << "<a href=\"" >> \o HtmlEscape(img_link) \o << "\" target=_blank>" >>
      img(url) == << "<img src=\"" >> \o HtmlEscape(url) \o << "\" ", "img_attrs", " />" >>
      wrap_a(url) == (IF img_link # << >> THEN a_open ELSE << >>) \o img(url)
                     \o (IF img_link # << >> THEN << "</a>" >> ELSE << >>)
  IN  IF img_url = << >> THEN << >>
      ELSE IF img_mobile # img_url
           THEN << "<span class=\"email-img-desktop\">" >> \o wrap_a(img_url) \o << "</span>" >>
                \o << "<span class=\"email-img-mobile\">" >> \o wrap_a(img_mobile) \o << "</span>" >>
      ELSE IF img_link # << >> THEN a_open \o img(img_url) \o << "</a>" >>
      ELSE img(img_url)

\* x or default, for a string x
OrDefault(x, default) == IF x = << >> THEN default ELSE x

\* build_rows_below_image without the test for the two-column key
build_rows_below_image_NoSuppress(trans, struct) ==
  LET has_body1 == S_body_1 \in DOMAIN trans
      has_body2 == S_body_2 \in DOMAIN trans
      has_cta == S_cta_text \in DOMAIN trans
      cta_link == NormaliseUrl(Get(struct, S_cta_link, << >>))
      cta_alias == strip(OrDefault(Get(struct, S_cta_alias, << >>), << "h","e","r","o","-","c","t","a" >>))
      body == IF has_body1 \/ has_body2
              THEN << << "<tr>" >>, << "  <td body>" >> >>
                   \o (IF has_body1 THEN << << "    <p body>" >> \o LiquidOut("body_1 | strip") \o << "</p>" >> >> ELSE << >>)
                   \o (IF has_body2 THEN << << "    <p body>" >> \o LiquidOut("body_2 | strip") \o << "</p>" >> >> ELSE << >>)
                   \o << << "  </td>" >>, << "</tr>" >> >>
              ELSE << >>
      cta == IF has_cta /\ cta_link # << >>
             THEN << << "<tr>" >>, << "  <td align=center>" >>,
                     << "    <a href=\"" >> \o HtmlEscape(cta_link) \o << "\" target=_blank data-cio-tag=\"" >>
                       \o HtmlEscape(cta_alias) \o << "\" cta-style>" >> \o LiquidOut("cta_text | strip") \o << "</a>" >>,
                     << "  </td>" >>, << "</tr>" >> >>
             ELSE << >>
  IN  join(body \o cta)

\* build_rows_below_image
build_rows_below_image(trans, struct) ==
  LET has_body1 == S_body_1 \in DOMAIN trans
      has_body2 == S_body_2 \in DOMAIN trans
      has_cta == S_cta_text \in DOMAIN trans
      cta_link == NormaliseUrl(Get(struct, S_cta_link, << >>))
      cta_alias == strip(OrDefault(Get(struct, S_cta_alias, << >>), << "h","e","r","o","-","c","t","a" >>))
      body == IF has_body1 \/ has_body2
              THEN << << "<tr>" >>, << "  <td body>" >> >>
                   \o (IF has_body1 THEN << << "    <p body>" >> \o LiquidOut("body_1 | strip") \o << "</p>" >> >> ELSE << >>)
                   \o (IF has_body2 THEN << << "    <p body>" >> \o LiquidOut("body_2 | strip") \o << "</p>" >> >> ELSE << >>)
                   \o << << "  </td>" >>, << "</tr>" >> >>
              ELSE << >>
      cta == IF has_cta /\ cta_link # << >>
             THEN << << "<tr>" >>, << "  <td align=center>" >>,
                     << "    <a href=\"" >> \o HtmlEscape(cta_link) \o << "\" target=_blank data-cio-tag=\"" >>
                       \o HtmlEscape(cta_alias) \o << "\" cta-style>" >> \o LiquidOut("cta_text | strip") \o << "</a>" >>,
                     << "  </td>" >>, << "</tr>" >> >>
             ELSE << >>
  IN  IF S_hero_two_col_body_1_h2 \in DOMAIN trans THEN << >> ELSE join(body \o cta)

\* build_app_download_settings: a constant Liquid block
build_app_download_settings(struct) ==
  LiquidTag(<< "assign _preset = app_download_colour_preset | default: app_download_colour_toggle | upcase | strip" >>)
  \o << "\n", "<app download colour assigns>", "\n" >>

\* build_app_download_module
build_app_download_module(trans, struct) ==
  LET app_rating == strip(OrDefault(Get(struct, S_app_store_rating, << >>), << "4.9/5 reviews" >>))
      google_rating == strip(OrDefault(Get(struct, S_google_play_rating, << >>), << "4.6/5 reviews" >>))
  IN  IF S_app_download_title \notin DOMAIN trans THEN << >>
      ELSE LiquidTag(<< "if"," ","app_download_title"," ","!="," ","blank" >>)
           \o << "\n", "<app card>" >> \o LiquidOut("app_download_title | strip")
           \o << "<app store badge>" >> \o HtmlEscape(app_rating)
           \o << "<google play badge>" >> \o HtmlEscape(google_rating)
           \o << "</app card>", "\n" >> \o LiquidTag(<< "endif" >>)

\* the <img> of one feature block
FeatureImg(url) == << "<img src=\"" >> \o HtmlEscape(url) \o << "\" />" >>

\* build_hero_two_column_module
build_hero_two_column_module(trans, struct) ==
  LET img1 == NormaliseUrl(Get(struct, S_hero_two_col_image_1_url, << >>))
      img2 == NormaliseUrl(Get(struct, S_hero_two_col_image_2_url, << >>))
      img3 == NormaliseUrl(Get(struct, S_hero_two_col_image_3_url, << >>))
      img4 == NormaliseUrl(Get(struct, S_hero_two_col_image_4_url, << >>))
      cta_link == NormaliseUrl(Get(struct, S_cta_link, << >>))
      cta_alias == strip(OrDefault(Get(struct, S_cta_alias, << >>),
                     << "h","e","r","o","-","t","w","o","-","c","o","l","-","c","t","a" >>))
      cta_href == IF cta_link # << >> THEN HtmlEscape(cta_link) ELSE << "#" >>
      cta_tag == HtmlEscape(cta_alias)
      block(n, img) == << "<feature text " \o n \o ">" >> \o FeatureImg(img)
  IN  IF S_hero_two_col_body_1_h2 \notin DOMAIN trans THEN << >>
      ELSE LiquidTag(<< "if"," ","hero_two_col_body_1_h2"," ","!="," ","blank" >>)
           \o << "\n" >> \o block("1", img1) \o block("2", img2) \o block("3", img3) \o block("4", img4)
           \o << "<a href=\"" >> \o cta_href \o << "\" target=_blank data-cio-tag=\"" >> \o cta_tag
           \o << "\" cta-style>" >> \o LiquidOut("hero_two_col_cta_text | strip") \o << "</a>", "\n" >>
           \o LiquidTag(<< "endif" >>)

\* UspModule that also wants its first image URL in the StructureTable
UspModule_NeedsImage(trans, struct, trigger, trigger_name, urls, stock) ==
  LET img(k) == OrDefault(NormaliseUrl(Get(struct, k, << >>)), << stock >>)
  IN  IF trigger \notin DOMAIN trans \/ urls[1] \notin DOMAIN struct THEN << >>
      ELSE LiquidTag(<< "if"," ", trigger_name, " ","!="," ","blank" >>)
           \o << "\n", "<usp title>" >>
           \o FeatureImg(img(urls[1])) \o << "<usp row 1>" >>
           \o FeatureImg(img(urls[2])) \o << "<usp row 2>" >>
           \o FeatureImg(img(urls[3])) \o << "<usp row 3>", "\n" >>
           \o LiquidTag(<< "endif" >>)

\* the shape shared by the three USP builders: trigger key, three image URLs
\* with a stock image for an empty one
UspModule(trans, struct, trigger, trigger_name, urls, stock) ==
  LET img(k) == OrDefault(NormaliseUrl(Get(struct, k, << >>)), << stock >>)
  IN  IF trigger \notin DOMAIN trans THEN << >>
      ELSE LiquidTag(<< "if"," ", trigger_name, " ","!="," ","blank" >>)
           \o << "\n", "<usp title>" >>
           \o FeatureImg(img(urls[1])) \o << "<usp row 1>" >>
           \o FeatureImg(img(urls[2])) \o << "<usp row 2>" >>
           \o FeatureImg(img(urls[3])) \o << "<usp row 3>", "\n" >>
           \o LiquidTag(<< "endif" >>)

\* build_usp_module
build_usp_module(trans, struct) ==
  UspModule(trans, struct, S_usp_title, "usp_title",
            << S_usp_1_icon_url, S_usp_2_icon_url, S_usp_3_icon_url >>,
            "https://placehold.co/80/f2e5ff/7130c9?text=icon")

\* build_usp_feature_module
build_usp_feature_module(trans, struct) ==
  UspModule(trans, struct, S_usp_feature_title, "usp_feature_title",
            << S_usp_feature_1_image_url, S_usp_feature_2_image_url, S_usp_feature_3_image_url >>,
            "https://placehold.co/280x200/fcf7f5/615a56?text=Feature")

\* build_usp_ui_module
build_usp_ui_module(trans, struct) ==
  UspModule(trans, struct, S_usp_ui_title, "usp_ui_title",
            << S_usp_ui_1_image_url, S_usp_ui_2_image_url, S_usp_ui_3_image_url >>,
            "https://placehold.co/280x200/fcf7f5/615a56?text=Image")

\* norm of build_config_block, on the flag values "TRUE", "FALSE", "" and others
ConfigNorm(val) ==
  LET v == IF val = << >> THEN << "T","R","U","E" >> ELSE [ i \in 1..Len(val) |-> IF \E j \in 1..26 : LowerChars[j] = val[i] THEN UpperChars[CHOOSE j \in 1..26 : LowerChars[j] = val[i]] ELSE val[i] ]
  IN  IF v \notin { << "T","R","U","E" >>, << "F","A","L","S","E" >> } THEN << "T","R","U","E" >> ELSE v

\* build_config_block (the colour preset line is a constant of the model)
build_config_block(show_header_logo, show_footer, show_terms) ==
  LiquidTag(<< "assign show_header_logo = \"" >> \o ConfigNorm(show_header_logo) \o << "\"" >>) \o << "\n" >>
  \o LiquidTag(<< "assign show_footer = \"" >> \o ConfigNorm(show_footer) \o << "\"" >>) \o << "\n" >>
  \o LiquidTag(<< "assign show_terms = \"" >> \o ConfigNorm(show_terms) \o << "\"" >>) \o << "\n" >>
  \o LiquidTag(<< "assign app_download_colour_toggle = \"LIGHT\"" >>)

\* build_links_block with the default links: one assign per link
build_links_block ==
  LiquidTag(<< "assign link_homepage = \"https://www.vio.com\"" >>) \o << "\n" >>
  \o LiquidTag(<< "assign link_notification_preferences = \"" >> \o << "{","{","snippets.vio_notification_preferences","}","}" >> \o << "\"" >>)

\* the four capture names build_terms_defaults_block looks for, in the order
\* of the fallback text
S_terms_title == << "t","e","r","m","s","_","t","i","t","l","e" >>
S_terms_label == << "t","e","r","m","s","_","l","a","b","e","l" >>
S_privacy_label == << "p","r","i","v","a","c","y","_","l","a","b","e","l" >>
S_terms_desc_text == << "t","e","r","m","s","_","d","e","s","c","_","t","e","x","t" >>
TERMS_NAMES == << S_terms_title, S_terms_label, S_privacy_label, S_terms_desc_text >>

\* the default texts of the fallback
TERMS_DEFAULTS ==
  << << "Terms and Privacy Policy" >>, << "Terms" >>, << "Privacy Policy" >>,
     << "This booking is covered by our ","{","terms","}"," and ","{","privacyPolicy","}","." >> >>

\* {%- if var == blank -%}block{%- endif -%}
TermsGuard(var, block) ==
  LiquidTag(<< "if"," " >> \o var \o << " ","=","="," ","blank" >>) \o block \o LiquidTag(<< "endif" >>)

\* the return value when full_email_template.liquid does not exist
TermsFallback ==
  join([ i \in 1..4 |->
           TermsGuard(TERMS_NAMES[i],
                      LiquidTag(<< "capture"," " >> \o TERMS_NAMES[i]) \o TERMS_DEFAULTS[i]
                        \o LiquidTag(<< "endcapture" >>)) ])

\* re.findall of  {%- capture (name) -%}.+?{%- endcapture -%}  with
\* re.DOTALL: the (block, name) pairs found in text at or after from
RECURSIVE TermsBlocks(_, _)
TermsBlocks(text, from) ==
  LET close == LiquidTag(<< "endcapture" >>)
      open(i) == LiquidTag(<< "capture"," " >> \o TERMS_NAMES[i])
      at(i) == IF from > Len(text) THEN 0 ELSE NextMatch(text, open(i), from)
      found == { i \in 1..4 : at(i) # 0 }
      first == CHOOSE i \in found : \A j \in found : at(i) <= at(j)
      body == at(first) + Len(open(first)) + 1
      j == IF body > Len(text) THEN 0 ELSE NextMatch(text, close, body)
  IN  IF found = {} THEN << >>
      ELSE IF j = 0 THEN << >>
      ELSE << << SubSeq(text, at(first), j + Len(close) - 1), TERMS_NAMES[first] >> >>
           \o TermsBlocks(text, j + Len(close))

\* build_terms_defaults_block; liquid is the text of full_email_template.liquid
\* beside the script, None when the file does not exist
build_terms_defaults_block(liquid) ==
  IF liquid = None THEN TermsFallback
  ELSE LET blocks == TermsBlocks(liquid, 1)
       IN  IF Len(blocks) # 4
           THEN LiquidTag(<< "comment" >>) \o << "terms defaults fallback" >> \o LiquidTag(<< "endcomment" >>)
           ELSE join([ i \in 1..4 |-> TermsGuard(strip(blocks[i][2]), blocks[i][1]) ])

(***************************************************************************)
(* Splicing (generate_template, lines 1562-1577)                           *)
(***************************************************************************)

\* the (token, local variable) pairs in the order of the .replace chain
SpliceOrder ==
  << << PLACEHOLDER_LINKS, "links_block" >>,
     << PLACEHOLDER_DESIGN_TOKENS, "design_tokens" >>,
     << PLACEHOLDER_APP_DOWNLOAD_SETTINGS, "app_settings" >>,
     << PLACEHOLDER_CONTENT_CAPTURES, "content_captures" >>,
     << PLACEHOLDER_ROWS_ABOVE_IMAGE, "rows_above" >>,
     << PLACEHOLDER_IMAGE_ROW, "image_row" >>,
     << PLACEHOLDER_ROWS_BELOW_IMAGE, "rows_below" >>,
     << PLACEHOLDER_HERO_TWO_COLUMN_MODULE, "hero_two_col" >>,
     << PLACEHOLDER_ICON_LEFT_TEXT_RIGHT_MODULE, "icon_left_text_right_module" >>,
     << PLACEHOLDER_TEXT_LEFT_IMAGE_RIGHT_MODULE, "text_left_image_right_module" >>,
     << PLACEHOLDER_ALTERNATING_TEXT_IMAGE_MODULE, "alternating_text_image_module" >>,
     << PLACEHOLDER_APP_DOWNLOAD_MODULE, "app_download" >>,
     << PLACEHOLDER_TERMS_DEFAULTS, "terms_defaults" >>,
     << PLACEHOLDER_CONFIG, "config" >> >>

\* tmpl.replace(order[i][1], frags[order[i][2]]) for i, i+1, ... in turn
RECURSIVE SpliceFrom(_, _, _, _)
SpliceFrom(tmpl, order, frags, i) ==
  IF i > Len(order) THEN tmpl
  ELSE SpliceFrom(replace(tmpl, order[i][1], frags[order[i][2]]), order, frags, i + 1)

\* the .replace chain applied in the given order
Splice(order, frags) == SpliceFrom(BASE_TEMPLATE, order, frags, 1)

\* the locals of generate_template that hold the fragments (lines 1544-1561)
Fragments(trans, struct, locs, e) ==
  [ links_block |-> build_links_block,
    design_tokens |-> strip(e.design_tokens),
    app_settings |-> build_app_download_settings(struct),
    content_captures |-> build_content_captures(trans, locs),
    rows_above |-> build_rows_above_image(trans),
    image_row |-> build_image_row(struct),
    rows_below |-> build_rows_below_image(trans, struct),
    hero_two_col |-> build_hero_two_column_module(trans, struct),
    icon_left_text_right_module |-> build_usp_module(trans, struct),
    text_left_image_right_module |-> build_usp_feature_module(trans, struct),
    alternating_text_image_module |-> build_usp_ui_module(trans, struct),
    app_download |-> build_app_download_module(trans, struct),
    terms_defaults |-> build_terms_defaults_block(e.liquid),
    config |-> build_config_block(e.show[1], e.show[2], e.show[3]) ]

(***************************************************************************)
(* Inputs: the spreadsheets, locale lists and side files the model explores *)
(***************************************************************************)

\* number of data rows read from one spreadsheet
MaxRows == 2

S_Key == << "K","e","y" >>

S_ar == << "a","r" >>

S_es == << "e","s" >>

S_fr == << "f","r" >>

S_hero_module == << "h","e","r","o","_","m","o","d","u","l","e" >>

\* header rows; << >> is a file without a header row
F_empty == << >>

F_one == << S_Key, S_en >>

F_legacy == << S_Key, S_en, S_ar >>

F_spaced == << S_Key, << " ","E"," ","N" >>, << "P","t","_","B","r","\t" >> >>

F_three == << S_Key, S_en, S_es, S_ar >>

F_unnamed == << S_Key, << "x" >>, << "y" >> >>

F_module ==
  << S_Key, << "M","o","d","u","l","e" >>,
     << "m","o","d","u","l","e","_"," ","I","n","d","e","x" >>, S_en >>

\* (header row, include_locales argument) pairs; None: argument not given
Configs ==
  { << F_empty, None >>,
    << F_one, None >>,
    << F_legacy, None >>,
    << F_legacy, << S_ar >> >>,
    << F_legacy, << S_ar, S_en >> >>,
    << F_legacy, << << "E","N" >>, S_fr >> >>,
    << F_spaced, None >>,
    << F_three, LOCALE_PRESET_TOP_5 >>,
    << F_three, << S_es, S_ar >> >>,
    << F_unnamed, None >>,
    << F_unnamed, << S_en, S_ar >> >>,
    << F_module, None >> }

\* the side inputs of one run: text of the design-token file ("" when the
\* file is absent), the three show_* flags, and the text of
\* full_email_template.liquid beside the script (None when it is absent)
DefaultEnv ==
  [ design_tokens |-> << "<design tokens>" >>,
    show |-> << << "T","R","U","E" >>, << "T","R","U","E" >>, << "T","R","U","E" >> >>,
           liquid |-> None ]

Envs(flds) ==
  IF flds = F_one
  THEN { DefaultEnv,
         [ design_tokens |-> << >>,
           show |-> << << "f","a","l","s","e" >>, << >>, << "n","o" >> >>,
           liquid |-> None ],
         [ design_tokens |-> << "<design tokens>" >> \o PLACEHOLDER_CONTENT_CAPTURES \o << " " >>,
           show |-> << << "F","A","L","S","E" >>, << "T","R","U","E" >>, << "F","A","L","S","E" >> >>,
           liquid |-> None ] }
  ELSE { DefaultEnv }

\* key cells of legacy-format rows; wide: the larger set
LegacyKeyCells(wide) ==
  IF ~wide
  THEN { S_headline, S_image_url }
  ELSE { S_headline, << " ","H","e","a","d"," ","L","i","n","e" >>, S_image_url,
         << "f","o","o" >>, << " " >> }

\* (key cell, Module cell) of Module-format rows
ModuleKeyCells ==
  { << S_headline, S_hero_module >>,
    << << "H","e","a","d","_","L","i","n","e" >>, << "H","e","r","o","_","M","o","d","u","l","e"," " >> >>,
    << S_image_url, S_hero_module >>,
    << << "h","e","r","o","_","i","m","a","g","e","_","u","r","l" >>,
       << "h","e","r","o","_","m","o","d","u","l","e","_","t","w","o","_","c","o","l","u","m","n" >> >>,
    << << "c","o","l","o","u","r" >>,
       << "a","p","p","_","d","o","w","n","l","o","a","d","_","m","o","d","u","l","e" >> >>,
    << << "C","o","l","o","r" >>,
       << "A","p","p","_","D","o","w","n","l","o","a","d"," ","_","M","o","d","u","l","e" >> >>,
    << S_headline, << "b","o","g","u","s" >> >>,
    << << "n","o","_","f","i","e","l","d" >>, S_hero_module >>,
    << S_headline, << " " >> >>,
    << << >>, S_hero_module >> }

\* the non-blank text of a cell of the j-th locale column
FilledCell(flds, j) ==
  IF flds = F_one THEN << "H","i" >>
  ELSE IF j = 1 THEN << "E" >>
  ELSE IF j = 2 THEN << " ","b"," " >>
  ELSE << "c" >>

\* the texts a cell of the j-th locale column takes: blank, or not
CellTexts(flds, j) ==
  { FilledCell(flds, j) }
    \cup ( IF flds = F_one
           THEN { << >>, PLACEHOLDER_LINKS, << "a" >> \o PLACEHOLDER_CONFIG, << "{","%","}" >> }
           ELSE IF j = 2 THEN { << " " >> } ELSE { << >> } )

\* all ways to fill the locale cells j..n
RECURSIVE CellRows(_, _, _)
CellRows(flds, j, n) ==
  IF j > n THEN { << >> }
  ELSE { << c >> \o rest : c \in CellTexts(flds, j), rest \in CellRows(flds, j + 1, n) }

\* the cells before the locale cells
LeadCells(flds, wide) ==
  IF UseModuleFormat(flds)
  THEN { << p[1], p[2], << "1" >> >> : p \in ModuleKeyCells }
  ELSE { << k >> : k \in LegacyKeyCells(wide) }

\* the lead cells whose rows take every combination of cell texts; the rows
\* of the other lead cells have all their cells filled
Varied(flds, lead) ==
  IF UseModuleFormat(flds)
  THEN lead[1] \in { S_headline, S_image_url,
                     << "h","e","r","o","_","i","m","a","g","e","_","u","r","l" >> }
         /\ ModuleSlot(NormCell(lead[2]), NormCell(lead[1])) # None
  ELSE IF flds = F_three THEN lead[1] = S_image_url
  ELSE lead[1] \in { S_headline, S_image_url }

\* short rows: the last cell missing, or only the key cell present
ShortRows(flds, wide) ==
  IF wide \/ UseModuleFormat(flds)
  THEN { l \o << << "E" >> >> : l \in { x \in LeadCells(flds, wide) : x[1] = S_headline } }
         \cup { << k >> : k \in { S_headline, << " " >> } }
  ELSE { }

\* the rows a spreadsheet with header row flds may hold
Rows(flds, wide) ==
  LET n == Len(LocaleHeaders(flds))
      filled == [ j \in 1..n |-> FilledCell(flds, j) ]
      full == { l \o c : l \in LeadCells(flds, wide), c \in CellRows(flds, 1, n) }
      kept == { r \in full :
                  /\ ~Varied(flds, SubSeq(r, 1, Len(r) - n)) => SubSeq(r, Len(r) - n + 1, Len(r)) = filled
                  /\ (flds = F_one /\ r[1] = S_image_url) => r[2] \in { << >>, << "H","i" >> } }
  IN  kept \cup { r \in ShortRows(flds, wide) : Len(r) < Len(flds) }

\* the run that reads the larger set of key cells and the short rows
Wide(e, flds, include) ==
  flds = F_legacy /\ include = None

\* no choice made: a direct call of a function
NoOptions == [ preset |-> << >>, custom |-> << >>, widgets |-> << >>, include_locales |-> None ]

\* _parse_design_tokens has not been called
NoParse == [ pc |-> "idle", file |-> << >>, tokens |-> << >>, items |-> << >>, pass |-> 0, pos |-> 0 ]

(***************************************************************************)
(* State                                                                   *)
(***************************************************************************)

VARIABLES
  pc,               \* position of the running script
  entry,            \* "generate_template" or "price_alerts" (its main)
  exists,           \* whether csv_path exists
  fields,           \* reader.fieldnames of the file
  include_locales,  \* generate_template's argument, None when not given
  env,              \* design-token file text and show_* flags of the call
  locales,          \* the local  locales
  locale_to_header, \* the local  locale_to_header
  rows,             \* the data rows read so far, in file order
  translations,     \* TranslationTable
  structure,        \* StructureTable
  internal_key,     \* internal_key of the last row read, None when skipped
  fragments,        \* the fragment locals of generate_template, None before
  result,           \* the returned template string, None before
  raised,           \* the exception that ended the call, "none" otherwise
  message,          \* the text the exception carries, "" otherwise
  sheet,            \* the data rows of a staged file, << >> when rows are drawn one by one
  caller,           \* the handler that staged the file and called generate_template, "none" for a direct call
  preview,          \* the handler's preview HTML, None before
  options,          \* what the user chose (sidebar and template-tab widgets of the UI, arguments of
                    \* the command line) and the sidebar's include_locales, None until resolved
  status,           \* exit status of the command-line process, -1 while it runs or when there is none
  stdout,           \* what the process has written to its standard output
  dt,               \* the locals of _parse_design_tokens
  download          \* the blank CSV the template tab offers: [header, rows], None before

vars == << pc, entry, exists, fields, include_locales, env, locales, locale_to_header,
           rows, translations, structure, internal_key, fragments, result, raised, message,
           sheet, caller, preview, options, status, stdout, dt, download >>

Init ==
  /\ pc = "start"
  /\ entry \in { "generate_template", "price_alerts" }
  /\ exists \in BOOLEAN
  /\ \E c \in Configs :
       /\ fields = c[1]
       /\ include_locales = c[2]
       /\ env \in Envs(c[1])
       /\ entry = "price_alerts" =>
            c[2] = None /\ c[1] \in { F_empty, F_legacy, F_unnamed }
       /\ ~exists => c[1] = F_legacy /\ c[2] = None
  /\ locales = None
  /\ locale_to_header = EmptyDict
  /\ rows = << >>
  /\ translations = EmptyDict
  /\ structure = EmptyDict
  /\ internal_key = None
  /\ fragments = None
  /\ result = None
  /\ raised = "none"
  /\ message = ""
  /\ sheet = << >>
  /\ caller = "none"
  /\ preview = None
  /\ options = NoOptions
  /\ status = -1
  /\ stdout = << >>
  /\ dt = NoParse
  /\ download = None

(***************************************************************************)
(* csv_translations_to_email.py: generate_template and load_translations   *)
(***************************************************************************)

\* include_locales or get_csv_locales(csv_path)
ResolveLocales(include, flds) ==
  IF include # None /\ include # << >> THEN include ELSE get_csv_locales(flds)

\* GenerateTemplateStart without the test of csv_path.exists()
GenerateTemplateStart_NoExistsCheck ==
  /\ pc = "start"
  /\ entry = "generate_template"
  /\ locales' = ResolveLocales(include_locales, fields)
  /\ pc' = "load"
  /\ UNCHANGED << entry, exists, fields, include_locales, env, locale_to_header, rows,
                  translations, structure, internal_key, fragments, result, raised, message >>
  /\ UNCHANGED << sheet, caller, preview, options, status, stdout, dt, download >>

\* generate_template up to the call of load_translations (lines 1537-1540)
GenerateTemplateStart ==
  /\ pc = "start"
  /\ entry = "generate_template"
  /\ IF ~exists
     THEN /\ raised' = "FileNotFoundError"
          /\ message' = "CSV file not found"
          /\ pc' = "raised"
          /\ UNCHANGED locales
     ELSE /\ locales' = ResolveLocales(include_locales, fields)
          /\ pc' = "load"
          /\ UNCHANGED << raised, message >>
  /\ UNCHANGED << entry, exists, fields, include_locales, env, locale_to_header, rows,
                  translations, structure, internal_key, fragments, result >>
  /\ UNCHANGED << sheet, caller, preview, options, status, stdout, dt, download >>

\* load_translations from its first line to the row loop (lines 347-385)
LoadTranslationsOpen ==
  /\ pc = "load"
  /\ translations' = EmptyDict
  /\ structure' = EmptyDict
  /\ IF fields = << >>
     THEN /\ pc' = "loaded"
          /\ UNCHANGED locale_to_header
     ELSE /\ locale_to_header' = LocaleToHeader(locales, fields)
          /\ pc' = "rows"
  /\ UNCHANGED << entry, exists, fields, include_locales, env, locales, rows,
                  internal_key, fragments, result, raised, message >>
  /\ UNCHANGED << sheet, caller, preview, options, status, stdout, dt, download >>

\* one iteration of  for row in reader  (lines 387-420)
LoadRow ==
  /\ pc = "rows"
  /\ Len(rows) < MaxRows
  /\ \E row \in Rows(fields, Wide(entry, fields, include_locales)) :
       LET key_raw == KeyRaw(fields, row)
           module_raw == ModuleRaw(fields, row)
           vals == ValuesByLocale(fields, locale_to_header, locales, row)
           key == InternalKey(UseModuleFormat(fields), module_raw, key_raw)
       IN  /\ rows' = Append(rows, row)
           /\ IF key_raw = << >>
              THEN /\ internal_key' = None
                   /\ UNCHANGED << pc, translations, structure, raised, message >>
              ELSE IF RowRaises(fields, locale_to_header, locales, row)
              THEN /\ raised' = "AttributeError"
                   /\ message' = "'NoneType' object has no attribute 'strip'"
                   /\ pc' = "raised"
                   /\ UNCHANGED << translations, structure, internal_key >>
              ELSE IF key = None
              THEN /\ internal_key' = None
                   /\ UNCHANGED << pc, translations, structure, raised, message >>
              ELSE /\ internal_key' = key
                   /\ IF key \in Range(STRUCTURE_KEYS)
                      THEN /\ structure' = StoreStructure(structure, key, vals, locales)
                           /\ UNCHANGED translations
                      ELSE /\ translations' = Put(translations, key, Backfill(vals, locales))
                           /\ UNCHANGED structure
                   /\ UNCHANGED << pc, raised, message >>
  /\ UNCHANGED << entry, exists, fields, include_locales, env, locales, locale_to_header,
                  fragments, result >>
  /\ UNCHANGED << sheet, caller, preview, options, status, stdout, dt, download >>

\* the reader is exhausted: return translations, structure (line 421)
LoadTranslationsReturn ==
  /\ pc = "rows"
  /\ pc' = "loaded"
  /\ UNCHANGED << entry, exists, fields, include_locales, env, locales, locale_to_header,
                  rows, translations, structure, internal_key, fragments, result, raised, message >>
  /\ UNCHANGED << sheet, caller, preview, options, status, stdout, dt, download >>

\* GenerateTemplateFinish whose build_content_captures takes each key it writes
\* a capture for out of the TranslationTable
GenerateTemplateFinish_Consuming ==
  /\ pc = "loaded"
  /\ entry = "generate_template"
  /\ IF DOMAIN translations = {} /\ DOMAIN structure = {}
     THEN /\ raised' = "SystemExit"
          /\ message' = "No rows found in CSV"
          /\ pc' = "raised"
          /\ UNCHANGED << fragments, result >>
     ELSE /\ fragments' = Fragments(translations, structure, locales, env)
          /\ result' = Splice(SpliceOrder, fragments')
          /\ pc' = "done"
          /\ UNCHANGED << raised, message >>
  /\ translations' = IF DOMAIN translations = {} /\ DOMAIN structure = {}
                     THEN translations
                     ELSE [ k \in DOMAIN translations \ Range(TRANSLATABLE_KEYS) |-> translations[k] ]
  /\ UNCHANGED << entry, exists, fields, include_locales, env, locales, locale_to_header,
                  rows, structure, internal_key >>
  /\ UNCHANGED << sheet, caller, preview, options, status, stdout, dt, download >>

\* generate_template after load_translations returned (lines 1542-1578)
GenerateTemplateFinish ==
  /\ pc = "loaded"
  /\ entry = "generate_template"
  /\ IF DOMAIN translations = {} /\ DOMAIN structure = {}
     THEN /\ raised' = "SystemExit"
          /\ message' = "No rows found in CSV"
          /\ pc' = "raised"
          /\ UNCHANGED << fragments, result >>
     ELSE /\ fragments' = Fragments(translations, structure, locales, env)
          /\ result' = Splice(SpliceOrder, fragments')
          /\ pc' = "done"
          /\ UNCHANGED << raised, message >>
  /\ UNCHANGED << entry, exists, fields, include_locales, env, locales, locale_to_header,
                  rows, translations, structure, internal_key >>
  /\ UNCHANGED << sheet, caller, preview, options, status, stdout, dt, download >>

(***************************************************************************)
(* csv_to_price_alerts_email.py: main and its load_translations            *)
(***************************************************************************)

\* locale_to_header of the price-alerts loader: i-th locale, (i+1)-th column
PALocaleToHeader(flds) ==
  [ loc \in { LOCALE_COLUMNS[i] : i \in { j \in 1..Len(LOCALE_COLUMNS) : j + 1 <= Len(flds) } }
      |-> flds[index(LOCALE_COLUMNS, loc) + 2] ]

\* build_i18n_json: per locale, the stripped value of every key present.
\* The JSON text itself is not modelled, only the mapping it encodes.
build_i18n_json(trans) ==
  [ loc \in Range(LOCALE_COLUMNS) |->
      [ k \in DOMAIN trans |-> strip(Get(trans[k], loc, << >>)) ] ]

\* main up to the call of load_translations (lines 97-101)
PAMainStart ==
  /\ pc = "start"
  /\ entry = "price_alerts"
  /\ IF ~exists
     THEN /\ raised' = "SystemExit"
          /\ message' = "Error: CSV not found"
          /\ pc' = "raised"
     ELSE /\ pc' = "pa_load"
          /\ UNCHANGED << raised, message >>
  /\ UNCHANGED << entry, exists, fields, include_locales, env, locales, locale_to_header,
                  rows, translations, structure, internal_key, fragments, result >>
  /\ UNCHANGED << sheet, caller, preview, options, status, stdout, dt, download >>

\* load_translations up to the row loop (lines 38-53)
PALoadOpen ==
  /\ pc = "pa_load"
  /\ translations' = EmptyDict
  /\ locales' = LOCALE_COLUMNS
  /\ IF fields = << >>
     THEN /\ pc' = "pa_loaded"
          /\ UNCHANGED locale_to_header
     ELSE /\ locale_to_header' = PALocaleToHeader(fields)
          /\ pc' = "pa_rows"
  /\ UNCHANGED << entry, exists, fields, include_locales, env, rows, structure,
                  internal_key, fragments, result, raised, message >>
  /\ UNCHANGED << sheet, caller, preview, options, status, stdout, dt, download >>

\* one iteration of  for row in reader  (lines 54-67)
PALoadRow ==
  /\ pc = "pa_rows"
  /\ Len(rows) < MaxRows
  /\ \E row \in Rows(fields, Wide(entry, fields, include_locales)) :
       LET key == KeyRaw(fields, row)
           vals == ValuesByLocale(fields, locale_to_header, LOCALE_COLUMNS, row)
       IN  /\ rows' = Append(rows, row)
           /\ IF key = << >> \/ key \notin Range(PRICE_ALERTS_KEYS)
              THEN /\ internal_key' = None
                   /\ UNCHANGED << pc, translations, raised, message >>
              ELSE IF RowRaises(fields, locale_to_header, LOCALE_COLUMNS, row)
              THEN /\ raised' = "AttributeError"
                   /\ message' = "'NoneType' object has no attribute 'strip'"
                   /\ pc' = "raised"
                   /\ UNCHANGED << translations, internal_key >>
              ELSE /\ internal_key' = key
                   /\ translations' = Put(translations, key, Backfill(vals, LOCALE_COLUMNS))
                   /\ UNCHANGED << pc, raised, message >>
  /\ UNCHANGED << entry, exists, fields, include_locales, env, locales, locale_to_header,
                  structure, fragments, result >>
  /\ UNCHANGED << sheet, caller, preview, options, status, stdout, dt, download >>

\* the reader is exhausted: return translations (line 68)
PALoadReturn ==
  /\ pc = "pa_rows"
  /\ pc' = "pa_loaded"
  /\ UNCHANGED << entry, exists, fields, include_locales, env, locales, locale_to_header,
                  rows, translations, structure, internal_key, fragments, result, raised,
                  message >>
  /\ UNCHANGED << sheet, caller, preview, options, status, stdout, dt, download >>

\* main after load_translations returned (lines 102-135); the sibling base
\* template is present or not, and holds the JSON capture block or not
PAMainFinish ==
  /\ pc = "pa_loaded"
  /\ entry = "price_alerts"
  /\ IF DOMAIN translations = {}
     THEN /\ raised' = "SystemExit"
          /\ message' = "Error: No translations found in CSV"
          /\ pc' = "raised"
          /\ UNCHANGED result
     ELSE \E base \in { "absent", "no block", "ok" } :
            IF base = "absent"
            THEN /\ raised' = "SystemExit"
                 /\ message' = "Error: Base template not found"
                 /\ pc' = "raised"
                 /\ UNCHANGED result
            ELSE IF base = "no block"
            THEN /\ raised' = "SystemExit"
                 /\ message' = "Error: Could not find price_alerts_i18n_json block in template"
                 /\ pc' = "raised"
                 /\ UNCHANGED result
            ELSE /\ result' = << "<template head>", build_i18n_json(translations), "<template tail>" >>
                 /\ pc' = "done"
                 /\ UNCHANGED << raised, message >>
  /\ UNCHANGED << entry, exists, fields, include_locales, env, locales, locale_to_header,
                  rows, translations, structure, internal_key, fragments >>
  /\ UNCHANGED << sheet, caller, preview, options, status, stdout, dt, download >>

Next ==
  \/ GenerateTemplateStart
  \/ LoadTranslationsOpen
  \/ LoadRow
  \/ LoadTranslationsReturn
  \/ GenerateTemplateFinish
  \/ PAMainStart
  \/ PALoadOpen
  \/ PALoadRow
  \/ PALoadReturn
  \/ PAMainFinish

Spec == Init /\ [][Next]_vars


(***************************************************************************)
(* Staged spreadsheets: whole files, read row by row.  The rows of the     *)
(* file are held in  sheet ; a row is the list of its cells.               *)
(***************************************************************************)

\* the rows of a file that holds the row  key,v  for one v of vals, or no
\* row of that key
Opt(key, vals) == { << >> } \cup { << << key, v >> >> : v \in vals }

T_Hello == << "H","e","l","l","o" >>

T_Click_me == << "C","l","i","c","k"," ","m","e" >>

\* URLs without and with a scheme separator, and an all-blank cell
U_bare == << "v","i","o",".","c","o","m","/","x" >>

U_schemed == << "h","t","t","p",":","/","/","a",".","b","/","c","?","d","&","e" >>

U_blank == << " " >>

\* the five trigger keys of the optional modules, in the order
\* app-download, hero two-column, USP, USP feature, USP UI
TriggerKeys ==
  << S_app_download_title, S_hero_two_col_body_1_h2, S_usp_title, S_usp_feature_title,
     S_usp_ui_title >>

\* files with header Key,en about the plain hero: headline, body, CTA and
\* the key of the two-column hero
HeroSheets ==
  { << << S_headline, T_Hello >> >> \o a \o b \o c \o d :
      a \in Opt(S_cta_text, { T_Click_me }),
      b \in Opt(S_cta_link, { << >>, U_blank, U_bare, U_schemed }),
      c \in { << >>, << << S_body_1, << "B","<","b",">" >> >> >>,
              << << S_body_1, << "O","n","e" >> >>, << S_body_2, << "T","w","o"," ","&"," ","m","o","r","e" >> >> >> },
      d \in Opt(S_hero_two_col_body_1_h2, { << "T","w","o" >> }) }

\* files about the image row
ImageSheets ==
  { a \o b \o c \o << << S_headline, T_Hello >> >> :
      a \in Opt(S_image_url, { << >>, U_blank, << "c","d","n",".","x","/","i",".","p","n","g" >>, << " ","h","t","t","p","s",":","/","/","c",".","d","/","i",".","p","n","g","?","a","=","1","&","b","=","\"","2","\"" >> }),
      b \in Opt(S_image_url_mobile, { << "m",".","x","/","i",".","p","n","g" >> }),
      c \in Opt(S_image_deeplink, { U_bare }) }

\* structural rows a file with module keys may carry
ModuleStructRows ==
  { << >>,
    << << S_cta_link, U_bare >>,
       << S_hero_two_col_image_1_url, << "x",".","y","/","1",".","p","n","g" >> >>,
       << S_hero_two_col_image_2_url, U_schemed >>,
       << S_usp_1_icon_url, << "i",".","c","o","/","a",".","p","n","g" >> >>,
       << S_usp_feature_1_image_url, U_schemed >>,
       << S_usp_ui_1_image_url, << "u",".","i","/","\"","q","\"",".","p","n","g" >> >>,
       << S_app_store_rating, << "4",".","8"," ","<","b",">","&","c","o","<","/","b",">" >> >>,
       << S_cta_alias, << "a","\"","b" >> >> >>,
    << << S_cta_link, U_blank >>,
       << S_cta_text, T_Click_me >>,
       << S_hero_two_col_image_1_url, << >> >>,
       << S_google_play_rating, << "4",".","7" >> >> >> }

\* files about the optional modules: no trigger key, one (with copy or with
\* a blank cell), or all five
ModuleSheets ==
  { << << S_headline, T_Hello >> >> \o t \o s :
      t \in { << >>, [ i \in 1..5 |-> << TriggerKeys[i], << "A","l","l" >> >> ] }
              \cup { << << TriggerKeys[i], v >> >> : i \in 1..5, v \in { << "T","i","t","l","e" >>, << >> } },
      s \in ModuleStructRows }

\* files whose copy holds Liquid tag delimiters and HTML markup characters
CopySheets ==
  { << << S_headline, v >> >> \o c :
      v \in { << "{","%","}" >>, << "a","{","%","b","%","}","c" >>, << "%","}","{","%" >>, << "{","{","%","}","}" >>, << "{","%"," ","e","n","d","c","a","p","t","u","r","e"," ","%","}" >>,
              << "<","b",">","R","&","D","<","/","b",">"," ","\"","x","\"" >>, << "{","{"," ","x"," ","}","}" >>, << "{","{"," ","'","{","%","'"," ","}","}" >>, << "'","%","}","'"," ","}","}" >>, << "{","%","-"," ","i","f"," ","x"," ","-","%","}" >> },
      c \in Opt(S_cta_text, { << "-","%","}","{","%","-"," ","c","a","p","t","u","r","e"," ","h","e","a","d","l","i","n","e"," ","-","%","}" >> }) }

\* longest copy made of tag delimiter characters
MaxCopyLen == 4

\* the strings over the characters of cs of length 1..n
RECURSIVE Strs(_, _)
Strs(cs, n) ==
  IF n = 0 THEN { }
  ELSE { << c >> : c \in cs } \cup { << c >> \o w : c \in cs, w \in Strs(cs, n - 1) }

\* files whose headline is made of the characters of the Liquid tag delimiters
DelimiterSheets ==
  { << << S_headline, v >> >> : v \in Strs({ "{", "%", "}" }, MaxCopyLen) }

\* files that end a run early: no data rows, a row shorter than the header
FailingSheets ==
  { << >>,
    << << S_headline >> >>,
    << << S_headline, T_Hello >>, << S_cta_text >> >>,
    << << << >>, T_Hello >> >>,
    << << U_blank, T_Hello >>, << << >>, << >> >> >> }

\* the show_* flags all off
HiddenEnv ==
  [ design_tokens |-> << >>,
    show |-> << << "F","A","L","S","E" >>, << "f","a","l","s","e" >>, << "F","A","L","S","E" >> >>,
    liquid |-> None ]


(***************************************************************************)
(* liquid_to_preview_html, on the templates generate_template returns      *)
(***************************************************************************)

\* the content variables the fragment builders write, with their keys
PreviewVars ==
  << << S_headline, "headline | strip" >>,
     << S_headline_2, "headline_2 | strip" >>,
     << S_secondary_headline, "secondary_headline | strip" >>,
     << S_body_1, "body_1 | strip" >>,
     << S_body_2, "body_2 | strip" >>,
     << S_cta_text, "cta_text | strip" >>,
     << S_app_download_title, "app_download_title | strip" >>,
     << << "h","e","r","o","_","t","w","o","_","c","o","l","_","c","t","a","_","t","e","x","t" >>, "hero_two_col_cta_text | strip" >> >>

\* html.replace("{{ k | strip }}", en value of k) for the i-th variable on
RECURSIVE PreviewReplace(_, _, _)
PreviewReplace(html, trans, i) ==
  IF i > Len(PreviewVars) THEN html
  ELSE PreviewReplace(
         replace(html, LiquidOut(PreviewVars[i][2]),
                 Get(Get(trans, PreviewVars[i][1], EmptyDict), S_en, << >>)),
         trans, i + 1)

\* re.sub of  {%- capture k -%} ... {%- endcapture -%}  by "", from position
\* from; open is the text the opening tag starts with
RECURSIVE RemoveCaptures(_, _, _)
RemoveCaptures(html, open, from) ==
  LET close == LiquidTag(<< "endcapture" >>)
      i == IF from > Len(html) THEN 0 ELSE NextMatch(html, open, from)
      j == IF i = 0 THEN 0 ELSE NextMatch(html, close, i)
  IN  IF i = 0 \/ j = 0 THEN SubSeq(html, from, Len(html))
      ELSE SubSeq(html, from, i - 1) \o RemoveCaptures(html, open, j + Len(close))

\* re.sub of the remaining tags  {% ... %}  by "": the tags of a generated
\* template are assign, if, endif and the tags inside captures
RECURSIVE RemoveTags(_, _)
RemoveTags(html, from) ==
  LET i == IF from > Len(html) THEN 0 ELSE NextMatch(html, << "{","%" >>, from)
      j == IF i = 0 \/ i + 2 > Len(html) THEN 0 ELSE NextMatch(html, << "%","}" >>, i + 2)
  IN  IF i = 0 \/ j = 0 THEN SubSeq(html, from, Len(html))
      ELSE SubSeq(html, from, i - 1) \o RemoveTags(html, j + 2)

\* re.sub(r"{{[^}]*}}", "", html), from position from
RECURSIVE RemoveOutputs(_, _)
RemoveOutputs(html, from) ==
  LET i == IF from > Len(html) THEN 0 ELSE NextMatch(html, << "{","{" >>, from)
      j == IF i = 0 \/ i + 2 > Len(html) THEN 0 ELSE NextMatch(html, << "}" >>, i + 2)
  IN  IF i = 0 THEN SubSeq(html, from, Len(html))
      ELSE IF j # 0 /\ j < Len(html) /\ html[j + 1] = "}"
           THEN SubSeq(html, from, i - 1) \o RemoveOutputs(html, j + 2)
           ELSE SubSeq(html, from, i) \o RemoveOutputs(html, i + 1)

\* the replacements of the terms block: the title, and the description with
\* its two links
PreviewTerms(html, trans) ==
  LET en_of(k, default) == Get(Get(trans, k, EmptyDict), S_en, default)
      terms_a == << "<a terms>" >> \o en_of(S_terms_label, TERMS_DEFAULTS[2]) \o << "</a>" >>
      privacy_a == << "<a privacy>" >> \o en_of(S_privacy_label, TERMS_DEFAULTS[3]) \o << "</a>" >>
      terms_desc == en_of(S_terms_desc_text, TERMS_DEFAULTS[4])
      desc_html == replace(replace(terms_desc, << "{","terms","}" >>, terms_a),
                           << "{","privacyPolicy","}" >>, privacy_a)
  IN  replace(replace(html, LiquidOut("terms_title | strip"), en_of(S_terms_title, TERMS_DEFAULTS[1])),
              LiquidOut("terms_desc_html"), desc_html)

\* _replace_conditional that keeps the body whatever keep says
RECURSIVE ReplaceConditional_KeepBody(_, _, _, _)
ReplaceConditional_KeepBody(html, prefix, keep, from) ==
  LET open == << "{","%","-"," ","if"," " >> \o prefix
      close == LiquidTag(<< "endif" >>)
      i == IF from > Len(html) THEN 0 ELSE NextMatch(html, open, from)
      after == i + Len(open)
      k == IF i = 0 \/ after > Len(html) THEN 0 ELSE NextMatch(html, << "%" >>, after)
      tag_ok == k > after /\ k < Len(html) /\ html[k + 1] = "}"
      j == IF tag_ok /\ k + 2 <= Len(html) THEN NextMatch(html, close, k + 2) ELSE 0
  IN  IF i = 0 THEN SubSeq(html, from, Len(html))
      ELSE IF ~tag_ok THEN SubSeq(html, from, i) \o ReplaceConditional_KeepBody(html, prefix, keep, i + 1)
      ELSE IF j = 0 THEN SubSeq(html, from, Len(html))
      ELSE SubSeq(html, from, i - 1)
           \o SubSeq(html, k + 2, j - 1)
           \o ReplaceConditional_KeepBody(html, prefix, keep, j + Len(close))

\* _replace_conditional(prefix, keep), from position from: re.sub of
\*   {%- if <prefix>[^%]+-?%} body {%- endif -%}
\* by the body or by "", the body running to the first endif tag after the
\* if tag
RECURSIVE ReplaceConditional(_, _, _, _)
ReplaceConditional(html, prefix, keep, from) ==
  LET open == << "{","%","-"," ","if"," " >> \o prefix
      close == LiquidTag(<< "endif" >>)
      i == IF from > Len(html) THEN 0 ELSE NextMatch(html, open, from)
      after == i + Len(open)
      k == IF i = 0 \/ after > Len(html) THEN 0 ELSE NextMatch(html, << "%" >>, after)
      tag_ok == k > after /\ k < Len(html) /\ html[k + 1] = "}"
      j == IF tag_ok /\ k + 2 <= Len(html) THEN NextMatch(html, close, k + 2) ELSE 0
  IN  IF i = 0 THEN SubSeq(html, from, Len(html))
      ELSE IF ~tag_ok THEN SubSeq(html, from, i) \o ReplaceConditional(html, prefix, keep, i + 1)
      ELSE IF j = 0 THEN SubSeq(html, from, Len(html))
      ELSE SubSeq(html, from, i - 1)
           \o (IF keep THEN SubSeq(html, k + 2, j - 1) ELSE << >>)
           \o ReplaceConditional(html, prefix, keep, j + Len(close))

\* the nine calls of _replace_conditional, in the order of the source:
\* (prefix, keep)
Conditionals(trans, flags) ==
  << << << "_show_header_logo" >>, flags[1] >>,
     << << "show_header_logo" >>, flags[1] >>,
     << << "show_footer" >>, flags[2] >>,
     << << "show_terms" >>, flags[3] >>,
     << << "app_download_title"," ","!="," ","blank" >>, S_app_download_title \in DOMAIN trans >>,
     << << "hero_two_col_body_1_h2"," ","!="," ","blank" >>, S_hero_two_col_body_1_h2 \in DOMAIN trans >>,
     << << "usp_title"," ","!="," ","blank" >>, S_usp_title \in DOMAIN trans >>,
     << << "usp_feature_title"," ","!="," ","blank" >>, S_usp_feature_title \in DOMAIN trans >>,
     << << "usp_ui_title"," ","!="," ","blank" >>, S_usp_ui_title \in DOMAIN trans >> >>

\* the calls from the n-th on
RECURSIVE ReplaceConditionals(_, _, _)
ReplaceConditionals(html, conds, n) ==
  IF n > Len(conds) THEN html
  ELSE ReplaceConditionals(ReplaceConditional(html, conds[n][1], conds[n][2], 1), conds, n + 1)

\* the flags a handler passes to liquid_to_preview_html beside the strings it
\* passes to generate_template
PreviewFlags(e) == [ i \in 1..3 |-> e.show[i] = << "T","R","U","E" >> ]

\* liquid_to_preview_html: content replacements, the conditionals, then the
\* re.sub chain
liquid_to_preview_html(liquid_content, trans, struct, flags) ==
  LET replaced == PreviewTerms(PreviewReplace(liquid_content, trans, 1), trans)
      resolved == ReplaceConditionals(replaced, Conditionals(trans, flags), 1)
      content == RemoveCaptures(resolved, << "{","%","-"," ","capture"," " >>, 1)
  IN  RemoveOutputs(RemoveTags(content, 1), 1)

(***************************************************************************)
(* load_translations as one call, for the handlers that read the staged    *)
(* file a second time                                                      *)
(***************************************************************************)

\* the row loop from row i on; raised names the exception that ends it
RECURSIVE LoadRowsFrom(_, _, _, _, _, _, _)
LoadRowsFrom(flds, l2h, locs, rws, i, trans, struct) ==
  IF i > Len(rws)
  THEN [ raised |-> "none", translations |-> trans, structure |-> struct ]
  ELSE LET row == rws[i]
           key_raw == KeyRaw(flds, row)
           vals == ValuesByLocale(flds, l2h, locs, row)
           key == InternalKey(UseModuleFormat(flds), ModuleRaw(flds, row), key_raw)
       IN  IF key_raw = << >> THEN LoadRowsFrom(flds, l2h, locs, rws, i + 1, trans, struct)
           ELSE IF RowRaises(flds, l2h, locs, row)
           THEN [ raised |-> "AttributeError", translations |-> trans, structure |-> struct ]
           ELSE IF key = None THEN LoadRowsFrom(flds, l2h, locs, rws, i + 1, trans, struct)
           ELSE IF key \in Range(STRUCTURE_KEYS)
           THEN LoadRowsFrom(flds, l2h, locs, rws, i + 1, trans,
                             StoreStructure(struct, key, vals, locs))
           ELSE LoadRowsFrom(flds, l2h, locs, rws, i + 1,
                             Put(trans, key, Backfill(vals, locs)), struct)

\* load_translations(csv_path, include_locales) on a file with header row flds
\* and data rows rws
load_translations(flds, rws, include) ==
  IF flds = << >>
  THEN [ raised |-> "none", translations |-> EmptyDict, structure |-> EmptyDict ]
  ELSE LoadRowsFrom(flds, LocaleToHeader(ResolveLocales(include, flds), flds),
                    ResolveLocales(include, flds), rws, 1, EmptyDict, EmptyDict)

\* files uploaded in the UI
UploadSheets ==
  FailingSheets
    \cup { << << S_headline, v >> >> \o a \o b :
             v \in { T_Hello, << "<","b",">","R","&","D","<","/","b",">"," ","\"","x","\"" >>, << "{","{"," ","x"," ","}","}" >> },
             a \in Opt(S_cta_text, { T_Click_me }),
             b \in Opt(S_cta_link, { U_schemed }) }
    \cup { << << S_headline, << "{","{"," ","}"," ","}","}" >> >> >>,
           << << S_headline, T_Hello >>, << S_app_download_title, << "G","e","t" >> >> >>,
           << << S_headline, T_Hello >>, << S_terms_title, << "T","e","r","m","s" >> >> >>,
           << << S_headline, T_Hello >>,
              << S_terms_title, << "a" >> \o LiquidTag(<< "endif" >>) \o << "b" >> >> >> }

(***************************************************************************)
(* The standard input template                                             *)
(***************************************************************************)

\* MODULE_TEMPLATE_ROWS: for each module of the standard input template its
\* rows (csv_key, en_placeholder), in file order
MODULE_TEMPLATE_ROWS ==
  [ m \in { << "h","e","r","o","_","m","o","d","u","l","e" >>, << "h","e","r","o","_","m","o","d","u","l","e","_","t","w","o","_","c","o","l","u","m","n" >>, << "a","p","p","_","d","o","w","n","l","o","a","d","_","m","o","d","u","l","e" >>, << "d","i","s","c","l","a","i","m","e","r","_","m","o","d","u","l","e" >>, << "i","c","o","n","_","l","e","f","t","_","t","e","x","t","_","r","i","g","h","t","_","m","o","d","u","l","e" >>, << "t","e","x","t","_","l","e","f","t","_","i","m","a","g","e","_","r","i","g","h","t","_","m","o","d","u","l","e" >>, << "a","l","t","e","r","n","a","t","i","n","g","_","t","e","x","t","_","i","m","a","g","e","_","m","o","d","u","l","e" >> } |->
      CASE m = << "h","e","r","o","_","m","o","d","u","l","e" >> ->
          << << << "s","u","b","j","e","c","t","_","l","i","n","e" >>, << >> >>,
             << << "p","r","e","h","e","a","d","e","r" >>, << >> >>,
             << << "h","e","a","d","l","i","n","e" >>, << >> >>,
             << << "b","o","d","y","_","1" >>, << >> >>,
             << << "b","o","d","y","_","2" >>, << >> >>,
             << << "c","t","a","_","t","e","x","t" >>, << >> >>,
             << << "i","m","a","g","e","_","u","r","l" >>, << >> >>,
             << << "i","m","a","g","e","_","u","r","l","_","m","o","b","i","l","e" >>, << >> >>,
             << << "i","m","a","g","e","_","d","e","e","p","l","i","n","k" >>, << >> >>,
             << << "c","t","a","_","l","i","n","k" >>, << >> >>,
             << << "c","t","a","_","a","l","i","a","s" >>, << "h","e","r","o","-","c","t","a" >> >> >>
        [] m = << "h","e","r","o","_","m","o","d","u","l","e","_","t","w","o","_","c","o","l","u","m","n" >> ->
          << << << "s","u","b","j","e","c","t","_","l","i","n","e" >>, << >> >>,
             << << "p","r","e","h","e","a","d","e","r" >>, << >> >>,
             << << "h","e","a","d","l","i","n","e" >>, << >> >>,
             << << "s","u","b","h","e","a","d","l","i","n","e" >>, << >> >>,
             << << "b","o","d","y","_","1","_","h","2" >>, << >> >>,
             << << "b","o","d","y","_","1","_","c","o","p","y" >>, << >> >>,
             << << "i","m","a","g","e","_","1","_","U","R","L" >>, << >> >>,
             << << "b","o","d","y","_","2","_","h","2" >>, << >> >>,
             << << "b","o","d","y","_","2","_","c","o","p","y" >>, << >> >>,
             << << "i","m","a","g","e","_","2","_","U","R","L" >>, << >> >>,
             << << "b","o","d","y","_","3","_","h","2" >>, << >> >>,
             << << "b","o","d","y","_","3","_","c","o","p","y" >>, << >> >>,
             << << "i","m","a","g","e","_","3","_","U","R","L" >>, << >> >>,
             << << "b","o","d","y","_","4","_","h","2" >>, << >> >>,
             << << "b","o","d","y","_","4","_","c","o","p","y" >>, << >> >>,
             << << "i","m","a","g","e","_","4","_","U","R","L" >>, << >> >>,
             << << "c","t","a","_","t","e","x","t" >>, << >> >>,
             << << "h","e","r","o","_","i","m","a","g","e","_","u","r","l" >>, << >> >>,
             << << "i","m","a","g","e","_","d","e","e","p","l","i","n","k" >>, << >> >>,
             << << "c","t","a","_","l","i","n","k" >>, << >> >>,
             << << "c","t","a","_","a","l","i","a","s" >>, << "h","e","r","o","-","c","t","a" >> >> >>
        [] m = << "a","p","p","_","d","o","w","n","l","o","a","d","_","m","o","d","u","l","e" >> ->
          << << << "h","e","a","d","l","i","n","e" >>, << >> >>,
             << << "f","e","a","t","u","r","e","_","1" >>, << >> >>,
             << << "f","e","a","t","u","r","e","_","2" >>, << >> >>,
             << << "f","e","a","t","u","r","e","_","3" >>, << >> >>,
             << << "c","o","l","o","u","r" >>, << "#","f","c","f","7","f","5" >> >> >>
        [] m = << "d","i","s","c","l","a","i","m","e","r","_","m","o","d","u","l","e" >> ->
          << << << "t","e","r","m","s","_","t","i","t","l","e" >>, << >> >>,
             << << "t","e","r","m","s","_","d","e","s","c" >>, << >> >>,
             << << "t","e","r","m","s","_","l","a","b","e","l" >>, << >> >>,
             << << "p","r","i","v","a","c","y","_","l","a","b","e","l" >>, << >> >> >>
        [] m = << "i","c","o","n","_","l","e","f","t","_","t","e","x","t","_","r","i","g","h","t","_","m","o","d","u","l","e" >> ->
          << << << "t","i","t","l","e" >>, << "H","o","w"," ","V","i","o"," ","h","e","l","p","s"," ","y","o","u"," ","b","o","o","k"," ","l","i","k","e"," ","a","n"," ","i","n","s","i","d","e","r" >> >>,
             << << "u","s","p","_","1","_","h","e","a","d","i","n","g" >>, << "C","o","m","p","a","r","e"," ","p","r","i","c","e","s"," ","a","c","r","o","s","s"," ","1","0","0","+"," ","s","i","t","e","s" >> >>,
             << << "u","s","p","_","1","_","c","o","p","y" >>, << "S","e","e"," ","t","h","e"," ","f","u","l","l"," ","p","i","c","t","u","r","e"," ","u","p","f","r","o","n","t","."," ","N","o"," ","g","u","e","s","s","i","n","g",","," ","n","o"," ","b","o","u","n","c","i","n","g"," ","b","e","t","w","e","e","n"," ","t","a","b","s","." >> >>,
             << << "u","s","p","_","1","_","i","c","o","n","_","u","r","l" >>, << >> >>,
             << << "u","s","p","_","2","_","h","e","a","d","i","n","g" >>, << "K","n","o","w"," ","e","x","a","c","t","l","y"," ","w","h","e","n"," ","t","o"," ","b","o","o","k" >> >>,
             << << "u","s","p","_","2","_","c","o","p","y" >>, << "P","r","i","c","e"," ","i","n","s","i","g","h","t","s"," ","s","h","o","w"," ","y","o","u"," ","t","h","e"," ","r","i","g","h","t"," ","m","o","m","e","n","t"," ","t","o"," ","s","e","c","u","r","e"," ","y","o","u","r"," ","d","e","a","l","." >> >>,
             << << "u","s","p","_","2","_","i","c","o","n","_","u","r","l" >>, << >> >>,
             << << "u","s","p","_","3","_","h","e","a","d","i","n","g" >>, << "S","t","a","y"," ","a","h","e","a","d"," ","o","f"," ","p","r","i","c","e"," ","c","h","a","n","g","e","s" >> >>,
             << << "u","s","p","_","3","_","c","o","p","y" >>, << "W","e"," ","t","r","a","c","k"," ","p","r","i","c","e","s"," ","s","o"," ","y","o","u"," ","d","o","n","'","t"," ","h","a","v","e"," ","t","o"," ","k","e","e","p"," ","c","h","e","c","k","i","n","g","." >> >>,
             << << "u","s","p","_","3","_","i","c","o","n","_","u","r","l" >>, << >> >> >>
        [] m = << "t","e","x","t","_","l","e","f","t","_","i","m","a","g","e","_","r","i","g","h","t","_","m","o","d","u","l","e" >> ->
          << << << "t","i","t","l","e" >>, << "H","o","w"," ","V","i","o"," ","h","e","l","p","s"," ","y","o","u"," ","b","o","o","k"," ","l","i","k","e"," ","a","n"," ","i","n","s","i","d","e","r" >> >>,
             << << "u","s","p","_","f","e","a","t","u","r","e","_","1","_","h","e","a","d","i","n","g" >>, << "C","o","m","p","a","r","e"," ","p","r","i","c","e","s"," ","a","c","r","o","s","s"," ","1","0","0","+"," ","s","i","t","e","s" >> >>,
             << << "u","s","p","_","f","e","a","t","u","r","e","_","1","_","c","o","p","y" >>, << "S","e","e"," ","t","h","e"," ","f","u","l","l"," ","p","i","c","t","u","r","e"," ","u","p","f","r","o","n","t","."," ","N","o"," ","g","u","e","s","s","i","n","g",","," ","n","o"," ","b","o","u","n","c","i","n","g"," ","b","e","t","w","e","e","n"," ","t","a","b","s","." >> >>,
             << << "u","s","p","_","f","e","a","t","u","r","e","_","1","_","i","m","a","g","e","_","u","r","l" >>, << >> >>,
             << << "u","s","p","_","f","e","a","t","u","r","e","_","2","_","h","e","a","d","i","n","g" >>, << "K","n","o","w"," ","e","x","a","c","t","l","y"," ","w","h","e","n"," ","t","o"," ","b","o","o","k" >> >>,
             << << "u","s","p","_","f","e","a","t","u","r","e","_","2","_","c","o","p","y" >>, << "P","r","i","c","e"," ","i","n","s","i","g","h","t","s"," ","s","h","o","w"," ","y","o","u"," ","t","h","e"," ","r","i","g","h","t"," ","m","o","m","e","n","t"," ","t","o"," ","s","e","c","u","r","e"," ","y","o","u","r"," ","d","e","a","l","." >> >>,
             << << "u","s","p","_","f","e","a","t","u","r","e","_","2","_","i","m","a","g","e","_","u","r","l" >>, << >> >>,
             << << "u","s","p","_","f","e","a","t","u","r","e","_","3","_","h","e","a","d","i","n","g" >>, << "S","t","a","y"," ","a","h","e","a","d"," ","o","f"," ","p","r","i","c","e"," ","c","h","a","n","g","e","s" >> >>,
             << << "u","s","p","_","f","e","a","t","u","r","e","_","3","_","c","o","p","y" >>, << "W","e"," ","t","r","a","c","k"," ","p","r","i","c","e","s"," ","s","o"," ","y","o","u"," ","d","o","n","'","t"," ","h","a","v","e"," ","t","o"," ","k","e","e","p"," ","c","h","e","c","k","i","n","g","." >> >>,
             << << "u","s","p","_","f","e","a","t","u","r","e","_","3","_","i","m","a","g","e","_","u","r","l" >>, << >> >> >>
        [] OTHER ->
          << << << "t","i","t","l","e" >>, << "H","o","w"," ","V","i","o"," ","h","e","l","p","s"," ","y","o","u"," ","b","o","o","k"," ","l","i","k","e"," ","a","n"," ","i","n","s","i","d","e","r" >> >>,
             << << "u","s","p","_","u","i","_","1","_","h","e","a","d","i","n","g" >>, << "C","o","m","p","a","r","e"," ","p","r","i","c","e","s"," ","a","c","r","o","s","s"," ","1","0","0","+"," ","s","i","t","e","s" >> >>,
             << << "u","s","p","_","u","i","_","1","_","c","o","p","y" >>, << "S","e","e"," ","t","h","e"," ","f","u","l","l"," ","p","i","c","t","u","r","e"," ","u","p","f","r","o","n","t","."," ","N","o"," ","g","u","e","s","s","i","n","g",","," ","n","o"," ","b","o","u","n","c","i","n","g"," ","b","e","t","w","e","e","n"," ","t","a","b","s","." >> >>,
             << << "u","s","p","_","u","i","_","1","_","i","m","a","g","e","_","u","r","l" >>, << >> >>,
             << << "u","s","p","_","u","i","_","2","_","h","e","a","d","i","n","g" >>, << "K","n","o","w"," ","e","x","a","c","t","l","y"," ","w","h","e","n"," ","t","o"," ","b","o","o","k" >> >>,
             << << "u","s","p","_","u","i","_","2","_","c","o","p","y" >>, << "P","r","i","c","e"," ","i","n","s","i","g","h","t","s"," ","s","h","o","w"," ","y","o","u"," ","t","h","e"," ","r","i","g","h","t"," ","m","o","m","e","n","t"," ","t","o"," ","s","e","c","u","r","e"," ","y","o","u","r"," ","d","e","a","l","." >> >>,
             << << "u","s","p","_","u","i","_","2","_","i","m","a","g","e","_","u","r","l" >>, << >> >>,
             << << "u","s","p","_","u","i","_","3","_","h","e","a","d","i","n","g" >>, << "S","t","a","y"," ","a","h","e","a","d"," ","o","f"," ","p","r","i","c","e"," ","c","h","a","n","g","e","s" >> >>,
             << << "u","s","p","_","u","i","_","3","_","c","o","p","y" >>, << "W","e"," ","t","r","a","c","k"," ","p","r","i","c","e","s"," ","s","o"," ","y","o","u"," ","d","o","n","'","t"," ","h","a","v","e"," ","t","o"," ","k","e","e","p"," ","c","h","e","c","k","i","n","g","." >> >>,
             << << "u","s","p","_","u","i","_","3","_","i","m","a","g","e","_","u","r","l" >>, << >> >> >>
  ]

Digits == << "0","1","2","3","4","5","6","7","8","9" >>

\* str(n) of a natural number
RECURSIVE Str(_)
Str(n) == IF n < 10 THEN << Digits[n + 1] >> ELSE Str(n \div 10) \o << Digits[(n % 10) + 1] >>

\* idx of the i-th selected module:
\* module_indices.get(mod, len(module_indices) + 1), where module_indices
\* holds the known modules met before
ModuleIndex(modules, i) ==
  LET first == SetMin({ j \in 1..i : modules[j] = modules[i] })
      before == { modules[j] : j \in { k \in 1..(first - 1) : modules[k] \in DOMAIN MODULE_TEMPLATE_ROWS } }
  IN  Cardinality(before) + 1

\* the rows appended for modules[i..]: the placeholder goes to the first
\* locale column (i == 0), the other locale cells are empty; a module that is
\* not in MODULE_TEMPLATE_ROWS is passed over
RECURSIVE TemplateRows(_, _, _)
TemplateRows(modules, locs, i) ==
  IF i > Len(modules) THEN << >>
  ELSE LET mod == modules[i]
           own == IF mod \in DOMAIN MODULE_TEMPLATE_ROWS
                  THEN [ r \in 1..Len(MODULE_TEMPLATE_ROWS[mod]) |->
                           << MODULE_TEMPLATE_ROWS[mod][r][1], mod, Str(ModuleIndex(modules, i)) >>
                             \o [ c \in 1..Len(locs) |->
                                    IF c = 1 THEN MODULE_TEMPLATE_ROWS[mod][r][2] ELSE << >> ] ]
                  ELSE << >>
       IN  own \o TemplateRows(modules, locs, i + 1)

\* generate_standard_input_template(modules, include_locales): the header row
\* and the data rows of the CSV it returns
generate_standard_input_template(modules, include) ==
  LET locs == IF include = None \/ include = << >> THEN << S_en >> ELSE include
  IN  [ header |-> << S_Key, << "M","o","d","u","l","e" >>, << "m","o","d","u","l","e","_","i","n","d","e","x" >> >> \o locs,
        rows |-> TemplateRows(modules, locs, 1) ]

\* the module selections the templates are generated for: each module alone,
\* two modules that share internal keys, two that do not, a name that is no
\* module, the same module twice
Selections ==
  << << << "h","e","r","o","_","m","o","d","u","l","e" >> >>,
     << << "h","e","r","o","_","m","o","d","u","l","e","_","t","w","o","_","c","o","l","u","m","n" >> >>,
     << << "a","p","p","_","d","o","w","n","l","o","a","d","_","m","o","d","u","l","e" >> >>,
     << << "d","i","s","c","l","a","i","m","e","r","_","m","o","d","u","l","e" >> >>,
     << << "i","c","o","n","_","l","e","f","t","_","t","e","x","t","_","r","i","g","h","t","_","m","o","d","u","l","e" >> >>,
     << << "t","e","x","t","_","l","e","f","t","_","i","m","a","g","e","_","r","i","g","h","t","_","m","o","d","u","l","e" >> >>,
     << << "a","l","t","e","r","n","a","t","i","n","g","_","t","e","x","t","_","i","m","a","g","e","_","m","o","d","u","l","e" >> >>,
     << << "h","e","r","o","_","m","o","d","u","l","e" >>, << "h","e","r","o","_","m","o","d","u","l","e","_","t","w","o","_","c","o","l","u","m","n" >> >>,
     << << "a","l","t","e","r","n","a","t","i","n","g","_","t","e","x","t","_","i","m","a","g","e","_","m","o","d","u","l","e" >>, << "a","p","p","_","d","o","w","n","l","o","a","d","_","m","o","d","u","l","e" >> >>,
     << << "n","o","_","m","o","d","u","l","e" >>, << "d","i","s","c","l","a","i","m","e","r","_","m","o","d","u","l","e" >> >>,
     << << "a","p","p","_","d","o","w","n","l","o","a","d","_","m","o","d","u","l","e" >>, << "a","p","p","_","d","o","w","n","l","o","a","d","_","m","o","d","u","l","e" >> >> >>

\* the locale lists the templates are generated for; None: argument not given
TemplateLocales == << None, << S_en >>, << S_en, S_es >>, << S_es, S_en >> >>

\* what a user types into an en cell
T_Filled == << " ","F","i","l","l","e","d"," ","i","n"," " >>

\* a generated template with the en cell of the rows in touched filled in
FillEn(tpl, touched) ==
  LET col == CHOOSE c \in 1..Len(tpl.header) : tpl.header[c] = S_en
  IN  [ i \in 1..Len(tpl.rows) |->
          IF i \in touched
          THEN [ c \in 1..Len(tpl.rows[i]) |-> IF c = col THEN T_Filled ELSE tpl.rows[i][c] ]
          ELSE tpl.rows[i] ]

\* the rows a user fills in: none, or the first and the third
Touched(fill) == IF fill THEN { 1, 3 } ELSE { }

\* the round trips: selection, locale list, whether cells are filled in, and
\* whether the loader is given the locale list of the generator
TemplateCases ==
  [ sel : 1..Len(Selections), locs : 1..Len(TemplateLocales), fill : BOOLEAN, given : BOOLEAN ]

TemplateOf(c) == generate_standard_input_template(Selections[c.sel], TemplateLocales[c.locs])

TemplateSheet(c) == FillEn(TemplateOf(c), Touched(c.fill))

(***************************************************************************)
(* The module preview                                                      *)
(***************************************************************************)

\* _PREVIEW_PLACEHOLDERS as (module, csv_key, text) entries
PREVIEW_PLACEHOLDERS ==
  { << << "h","e","r","o","_","m","o","d","u","l","e" >>, << "s","u","b","j","e","c","t","_","l","i","n","e" >>,
       << "P","r","e","v","i","e","w" >> >>,
    << << "h","e","r","o","_","m","o","d","u","l","e" >>, << "p","r","e","h","e","a","d","e","r" >>,
       << "P","r","e","v","i","e","w"," ","t","e","x","t" >> >>,
    << << "h","e","r","o","_","m","o","d","u","l","e" >>, << "h","e","a","d","l","i","n","e" >>,
       << "Y","o","u","r"," ","h","e","a","d","l","i","n","e"," ","h","e","r","e" >> >>,
    << << "h","e","r","o","_","m","o","d","u","l","e" >>, << "b","o","d","y","_","1" >>,
       << "B","o","d","y"," ","c","o","p","y"," ","g","o","e","s"," ","h","e","r","e","."," ","R","e","p","l","a","c","e"," ","w","i","t","h"," ","y","o","u","r"," ","m","e","s","s","a","g","e","." >> >>,
    << << "h","e","r","o","_","m","o","d","u","l","e" >>, << "b","o","d","y","_","2" >>,
       << "S","e","c","o","n","d"," ","p","a","r","a","g","r","a","p","h"," ","o","f"," ","b","o","d","y"," ","t","e","x","t","." >> >>,
    << << "h","e","r","o","_","m","o","d","u","l","e" >>, << "c","t","a","_","t","e","x","t" >>,
       << "C","a","l","l"," ","t","o"," ","a","c","t","i","o","n" >> >>,
    << << "h","e","r","o","_","m","o","d","u","l","e" >>, << "i","m","a","g","e","_","u","r","l" >>,
       << "h","t","t","p","s",":","/","/","p","l","a","c","e","h","o","l","d",".","c","o","/","7","2","8","x","4","0","0","/","f","c","f","7","f","5","/","6","1","5","a","5","6","?","t","e","x","t","=","H","e","r","o","+","i","m","a","g","e" >> >>,
    << << "h","e","r","o","_","m","o","d","u","l","e" >>, << "i","m","a","g","e","_","d","e","e","p","l","i","n","k" >>,
       << "#" >> >>,
    << << "h","e","r","o","_","m","o","d","u","l","e" >>, << "c","t","a","_","l","i","n","k" >>,
       << "#" >> >>,
    << << "h","e","r","o","_","m","o","d","u","l","e" >>, << "c","t","a","_","a","l","i","a","s" >>,
       << "h","e","r","o","-","c","t","a" >> >>,
    << << "h","e","r","o","_","m","o","d","u","l","e","_","t","w","o","_","c","o","l","u","m","n" >>, << "s","u","b","j","e","c","t","_","l","i","n","e" >>,
       << "P","r","e","v","i","e","w" >> >>,
    << << "h","e","r","o","_","m","o","d","u","l","e","_","t","w","o","_","c","o","l","u","m","n" >>, << "p","r","e","h","e","a","d","e","r" >>,
       << "P","r","e","v","i","e","w" >> >>,
    << << "h","e","r","o","_","m","o","d","u","l","e","_","t","w","o","_","c","o","l","u","m","n" >>, << "h","e","a","d","l","i","n","e" >>,
       << "Y","o","u","r"," ","m","a","i","n"," ","h","e","a","d","l","i","n","e" >> >>,
    << << "h","e","r","o","_","m","o","d","u","l","e","_","t","w","o","_","c","o","l","u","m","n" >>, << "s","u","b","h","e","a","d","l","i","n","e" >>,
       << "S","u","b","h","e","a","d","l","i","n","e" >> >>,
    << << "h","e","r","o","_","m","o","d","u","l","e","_","t","w","o","_","c","o","l","u","m","n" >>, << "b","o","d","y","_","1","_","h","2" >>,
       << "F","e","a","t","u","r","e"," ","o","n","e" >> >>,
    << << "h","e","r","o","_","m","o","d","u","l","e","_","t","w","o","_","c","o","l","u","m","n" >>, << "b","o","d","y","_","1","_","c","o","p","y" >>,
       << "D","e","s","c","r","i","p","t","i","o","n"," ","f","o","r"," ","t","h","i","s"," ","f","e","a","t","u","r","e"," ","b","l","o","c","k","." >> >>,
    << << "h","e","r","o","_","m","o","d","u","l","e","_","t","w","o","_","c","o","l","u","m","n" >>, << "i","m","a","g","e","_","1","_","U","R","L" >>,
       << "h","t","t","p","s",":","/","/","p","l","a","c","e","h","o","l","d",".","c","o","/","2","6","0","x","1","8","0","/","f","c","f","7","f","5","/","6","1","5","a","5","6","?","t","e","x","t","=","1" >> >>,
    << << "h","e","r","o","_","m","o","d","u","l","e","_","t","w","o","_","c","o","l","u","m","n" >>, << "b","o","d","y","_","2","_","h","2" >>,
       << "F","e","a","t","u","r","e"," ","t","w","o" >> >>,
    << << "h","e","r","o","_","m","o","d","u","l","e","_","t","w","o","_","c","o","l","u","m","n" >>, << "b","o","d","y","_","2","_","c","o","p","y" >>,
       << "D","e","s","c","r","i","p","t","i","o","n"," ","f","o","r"," ","t","h","e"," ","s","e","c","o","n","d"," ","b","l","o","c","k","." >> >>,
    << << "h","e","r","o","_","m","o","d","u","l","e","_","t","w","o","_","c","o","l","u","m","n" >>, << "i","m","a","g","e","_","2","_","U","R","L" >>,
       << "h","t","t","p","s",":","/","/","p","l","a","c","e","h","o","l","d",".","c","o","/","2","6","0","x","1","8","0","/","f","c","f","7","f","5","/","6","1","5","a","5","6","?","t","e","x","t","=","2" >> >>,
    << << "h","e","r","o","_","m","o","d","u","l","e","_","t","w","o","_","c","o","l","u","m","n" >>, << "b","o","d","y","_","3","_","h","2" >>,
       << "F","e","a","t","u","r","e"," ","t","h","r","e","e" >> >>,
    << << "h","e","r","o","_","m","o","d","u","l","e","_","t","w","o","_","c","o","l","u","m","n" >>, << "b","o","d","y","_","3","_","c","o","p","y" >>,
       << "D","e","s","c","r","i","p","t","i","o","n"," ","f","o","r"," ","t","h","e"," ","t","h","i","r","d"," ","b","l","o","c","k","." >> >>,
    << << "h","e","r","o","_","m","o","d","u","l","e","_","t","w","o","_","c","o","l","u","m","n" >>, << "i","m","a","g","e","_","3","_","U","R","L" >>,
       << "h","t","t","p","s",":","/","/","p","l","a","c","e","h","o","l","d",".","c","o","/","2","6","0","x","1","8","0","/","f","c","f","7","f","5","/","6","1","5","a","5","6","?","t","e","x","t","=","3" >> >>,
    << << "h","e","r","o","_","m","o","d","u","l","e","_","t","w","o","_","c","o","l","u","m","n" >>, << "b","o","d","y","_","4","_","h","2" >>,
       << "F","e","a","t","u","r","e"," ","f","o","u","r" >> >>,
    << << "h","e","r","o","_","m","o","d","u","l","e","_","t","w","o","_","c","o","l","u","m","n" >>, << "b","o","d","y","_","4","_","c","o","p","y" >>,
       << "D","e","s","c","r","i","p","t","i","o","n"," ","f","o","r"," ","t","h","e"," ","f","o","u","r","t","h"," ","b","l","o","c","k","." >> >>,
    << << "h","e","r","o","_","m","o","d","u","l","e","_","t","w","o","_","c","o","l","u","m","n" >>, << "i","m","a","g","e","_","4","_","U","R","L" >>,
       << "h","t","t","p","s",":","/","/","p","l","a","c","e","h","o","l","d",".","c","o","/","2","6","0","x","1","8","0","/","f","c","f","7","f","5","/","6","1","5","a","5","6","?","t","e","x","t","=","4" >> >>,
    << << "h","e","r","o","_","m","o","d","u","l","e","_","t","w","o","_","c","o","l","u","m","n" >>, << "c","t","a","_","t","e","x","t" >>,
       << "C","a","l","l"," ","t","o"," ","a","c","t","i","o","n" >> >>,
    << << "h","e","r","o","_","m","o","d","u","l","e","_","t","w","o","_","c","o","l","u","m","n" >>, << "h","e","r","o","_","i","m","a","g","e","_","u","r","l" >>,
       << "h","t","t","p","s",":","/","/","p","l","a","c","e","h","o","l","d",".","c","o","/","7","2","8","x","4","0","0","/","f","c","f","7","f","5","/","6","1","5","a","5","6","?","t","e","x","t","=","H","e","r","o" >> >>,
    << << "h","e","r","o","_","m","o","d","u","l","e","_","t","w","o","_","c","o","l","u","m","n" >>, << "i","m","a","g","e","_","d","e","e","p","l","i","n","k" >>,
       << "#" >> >>,
    << << "h","e","r","o","_","m","o","d","u","l","e","_","t","w","o","_","c","o","l","u","m","n" >>, << "c","t","a","_","l","i","n","k" >>,
       << "#" >> >>,
    << << "h","e","r","o","_","m","o","d","u","l","e","_","t","w","o","_","c","o","l","u","m","n" >>, << "c","t","a","_","a","l","i","a","s" >>,
       << "h","e","r","o","-","c","t","a" >> >>,
    << << "a","p","p","_","d","o","w","n","l","o","a","d","_","m","o","d","u","l","e" >>, << "h","e","a","d","l","i","n","e" >>,
       << "<","b",">","S","t","a","y"," ","i","n"," ","t","h","e"," ","l","o","o","p","<","/","b",">"," ","o","n"," ","t","h","e"," ","a","p","p" >> >>,
    << << "a","p","p","_","d","o","w","n","l","o","a","d","_","m","o","d","u","l","e" >>, << "f","e","a","t","u","r","e","_","1" >>,
       << "F","i","n","d"," ","e","x","t","r","a"," ","s","a","v","i","n","g","s" >> >>,
    << << "a","p","p","_","d","o","w","n","l","o","a","d","_","m","o","d","u","l","e" >>, << "f","e","a","t","u","r","e","_","2" >>,
       << "M","a","n","a","g","e"," ","y","o","u","r"," ","r","e","s","e","r","v","a","t","i","o","n","s" >> >>,
    << << "a","p","p","_","d","o","w","n","l","o","a","d","_","m","o","d","u","l","e" >>, << "f","e","a","t","u","r","e","_","3" >>,
       << "T","r","a","c","k"," ","p","r","i","c","e","s" >> >>,
    << << "a","p","p","_","d","o","w","n","l","o","a","d","_","m","o","d","u","l","e" >>, << "c","o","l","o","u","r" >>,
       << "#","f","c","f","7","f","5" >> >>,
    << << "d","i","s","c","l","a","i","m","e","r","_","m","o","d","u","l","e" >>, << "t","e","r","m","s","_","t","i","t","l","e" >>,
       << "T","e","r","m","s"," ","a","n","d"," ","P","r","i","v","a","c","y"," ","P","o","l","i","c","y" >> >>,
    << << "d","i","s","c","l","a","i","m","e","r","_","m","o","d","u","l","e" >>, << "t","e","r","m","s","_","d","e","s","c" >>,
       << "T","h","i","s"," ","b","o","o","k","i","n","g"," ","i","s"," ","c","o","v","e","r","e","d"," ","b","y"," ","o","u","r"," ","{","t","e","r","m","s","}"," ","a","n","d"," ","{","p","r","i","v","a","c","y","P","o","l","i","c","y","}","." >> >>,
    << << "d","i","s","c","l","a","i","m","e","r","_","m","o","d","u","l","e" >>, << "t","e","r","m","s","_","l","a","b","e","l" >>,
       << "T","e","r","m","s" >> >>,
    << << "d","i","s","c","l","a","i","m","e","r","_","m","o","d","u","l","e" >>, << "p","r","i","v","a","c","y","_","l","a","b","e","l" >>,
       << "P","r","i","v","a","c","y"," ","P","o","l","i","c","y" >> >>,
    << << "i","c","o","n","_","l","e","f","t","_","t","e","x","t","_","r","i","g","h","t","_","m","o","d","u","l","e" >>, << "t","i","t","l","e" >>,
       << "H","o","w"," ","V","i","o"," ","h","e","l","p","s"," ","y","o","u"," ","b","o","o","k"," ","l","i","k","e"," ","a","n"," ","i","n","s","i","d","e","r" >> >>,
    << << "i","c","o","n","_","l","e","f","t","_","t","e","x","t","_","r","i","g","h","t","_","m","o","d","u","l","e" >>, << "u","s","p","_","1","_","h","e","a","d","i","n","g" >>,
       << "C","o","m","p","a","r","e"," ","p","r","i","c","e","s"," ","a","c","r","o","s","s"," ","1","0","0","+"," ","s","i","t","e","s" >> >>,
    << << "i","c","o","n","_","l","e","f","t","_","t","e","x","t","_","r","i","g","h","t","_","m","o","d","u","l","e" >>, << "u","s","p","_","1","_","c","o","p","y" >>,
       << "S","e","e"," ","t","h","e"," ","f","u","l","l"," ","p","i","c","t","u","r","e"," ","u","p","f","r","o","n","t","."," ","N","o"," ","g","u","e","s","s","i","n","g",","," ","n","o"," ","b","o","u","n","c","i","n","g"," ","b","e","t","w","e","e","n"," ","t","a","b","s","." >> >>,
    << << "i","c","o","n","_","l","e","f","t","_","t","e","x","t","_","r","i","g","h","t","_","m","o","d","u","l","e" >>, << "u","s","p","_","1","_","i","c","o","n","_","u","r","l" >>,
       << "h","t","t","p","s",":","/","/","p","l","a","c","e","h","o","l","d",".","c","o","/","8","0","/","f","2","e","5","f","f","/","7","1","3","0","c","9","?","t","e","x","t","=","1" >> >>,
    << << "i","c","o","n","_","l","e","f","t","_","t","e","x","t","_","r","i","g","h","t","_","m","o","d","u","l","e" >>, << "u","s","p","_","2","_","h","e","a","d","i","n","g" >>,
       << "K","n","o","w"," ","e","x","a","c","t","l","y"," ","w","h","e","n"," ","t","o"," ","b","o","o","k" >> >>,
    << << "i","c","o","n","_","l","e","f","t","_","t","e","x","t","_","r","i","g","h","t","_","m","o","d","u","l","e" >>, << "u","s","p","_","2","_","c","o","p","y" >>,
       << "P","r","i","c","e"," ","i","n","s","i","g","h","t","s"," ","s","h","o","w"," ","y","o","u"," ","t","h","e"," ","r","i","g","h","t"," ","m","o","m","e","n","t"," ","t","o"," ","s","e","c","u","r","e"," ","y","o","u","r"," ","d","e","a","l","." >> >>,
    << << "i","c","o","n","_","l","e","f","t","_","t","e","x","t","_","r","i","g","h","t","_","m","o","d","u","l","e" >>, << "u","s","p","_","2","_","i","c","o","n","_","u","r","l" >>,
       << "h","t","t","p","s",":","/","/","p","l","a","c","e","h","o","l","d",".","c","o","/","8","0","/","f","2","e","5","f","f","/","7","1","3","0","c","9","?","t","e","x","t","=","2" >> >>,
    << << "i","c","o","n","_","l","e","f","t","_","t","e","x","t","_","r","i","g","h","t","_","m","o","d","u","l","e" >>, << "u","s","p","_","3","_","h","e","a","d","i","n","g" >>,
       << "S","t","a","y"," ","a","h","e","a","d"," ","o","f"," ","p","r","i","c","e"," ","c","h","a","n","g","e","s" >> >>,
    << << "i","c","o","n","_","l","e","f","t","_","t","e","x","t","_","r","i","g","h","t","_","m","o","d","u","l","e" >>, << "u","s","p","_","3","_","c","o","p","y" >>,
       << "W","e"," ","t","r","a","c","k"," ","p","r","i","c","e","s"," ","s","o"," ","y","o","u"," ","d","o","n","'","t"," ","h","a","v","e"," ","t","o"," ","k","e","e","p"," ","c","h","e","c","k","i","n","g","." >> >>,
    << << "i","c","o","n","_","l","e","f","t","_","t","e","x","t","_","r","i","g","h","t","_","m","o","d","u","l","e" >>, << "u","s","p","_","3","_","i","c","o","n","_","u","r","l" >>,
       << "h","t","t","p","s",":","/","/","p","l","a","c","e","h","o","l","d",".","c","o","/","8","0","/","f","2","e","5","f","f","/","7","1","3","0","c","9","?","t","e","x","t","=","3" >> >>,
    << << "t","e","x","t","_","l","e","f","t","_","i","m","a","g","e","_","r","i","g","h","t","_","m","o","d","u","l","e" >>, << "t","i","t","l","e" >>,
       << "H","o","w"," ","V","i","o"," ","h","e","l","p","s"," ","y","o","u"," ","b","o","o","k"," ","l","i","k","e"," ","a","n"," ","i","n","s","i","d","e","r" >> >>,
    << << "t","e","x","t","_","l","e","f","t","_","i","m","a","g","e","_","r","i","g","h","t","_","m","o","d","u","l","e" >>, << "u","s","p","_","f","e","a","t","u","r","e","_","1","_","h","e","a","d","i","n","g" >>,
       << "C","o","m","p","a","r","e"," ","p","r","i","c","e","s"," ","a","c","r","o","s","s"," ","1","0","0","+"," ","s","i","t","e","s" >> >>,
    << << "t","e","x","t","_","l","e","f","t","_","i","m","a","g","e","_","r","i","g","h","t","_","m","o","d","u","l","e" >>, << "u","s","p","_","f","e","a","t","u","r","e","_","1","_","c","o","p","y" >>,
       << "S","e","e"," ","t","h","e"," ","f","u","l","l"," ","p","i","c","t","u","r","e"," ","u","p","f","r","o","n","t","."," ","N","o"," ","g","u","e","s","s","i","n","g",","," ","n","o"," ","b","o","u","n","c","i","n","g"," ","b","e","t","w","e","e","n"," ","t","a","b","s","." >> >>,
    << << "t","e","x","t","_","l","e","f","t","_","i","m","a","g","e","_","r","i","g","h","t","_","m","o","d","u","l","e" >>, << "u","s","p","_","f","e","a","t","u","r","e","_","1","_","i","m","a","g","e","_","u","r","l" >>,
       << "h","t","t","p","s",":","/","/","p","l","a","c","e","h","o","l","d",".","c","o","/","2","8","0","x","2","0","0","/","f","c","f","7","f","5","/","6","1","5","a","5","6","?","t","e","x","t","=","C","o","m","p","a","r","e" >> >>,
    << << "t","e","x","t","_","l","e","f","t","_","i","m","a","g","e","_","r","i","g","h","t","_","m","o","d","u","l","e" >>, << "u","s","p","_","f","e","a","t","u","r","e","_","2","_","h","e","a","d","i","n","g" >>,
       << "K","n","o","w"," ","e","x","a","c","t","l","y"," ","w","h","e","n"," ","t","o"," ","b","o","o","k" >> >>,
    << << "t","e","x","t","_","l","e","f","t","_","i","m","a","g","e","_","r","i","g","h","t","_","m","o","d","u","l","e" >>, << "u","s","p","_","f","e","a","t","u","r","e","_","2","_","c","o","p","y" >>,
       << "P","r","i","c","e"," ","i","n","s","i","g","h","t","s"," ","s","h","o","w"," ","y","o","u"," ","t","h","e"," ","r","i","g","h","t"," ","m","o","m","e","n","t"," ","t","o"," ","s","e","c","u","r","e"," ","y","o","u","r"," ","d","e","a","l","." >> >>,
    << << "t","e","x","t","_","l","e","f","t","_","i","m","a","g","e","_","r","i","g","h","t","_","m","o","d","u","l","e" >>, << "u","s","p","_","f","e","a","t","u","r","e","_","2","_","i","m","a","g","e","_","u","r","l" >>,
       << "h","t","t","p","s",":","/","/","p","l","a","c","e","h","o","l","d",".","c","o","/","2","8","0","x","2","0","0","/","f","c","f","7","f","5","/","6","1","5","a","5","6","?","t","e","x","t","=","W","h","e","n" >> >>,
    << << "t","e","x","t","_","l","e","f","t","_","i","m","a","g","e","_","r","i","g","h","t","_","m","o","d","u","l","e" >>, << "u","s","p","_","f","e","a","t","u","r","e","_","3","_","h","e","a","d","i","n","g" >>,
       << "S","t","a","y"," ","a","h","e","a","d"," ","o","f"," ","p","r","i","c","e"," ","c","h","a","n","g","e","s" >> >>,
    << << "t","e","x","t","_","l","e","f","t","_","i","m","a","g","e","_","r","i","g","h","t","_","m","o","d","u","l","e" >>, << "u","s","p","_","f","e","a","t","u","r","e","_","3","_","c","o","p","y" >>,
       << "W","e"," ","t","r","a","c","k"," ","p","r","i","c","e","s"," ","s","o"," ","y","o","u"," ","d","o","n","'","t"," ","h","a","v","e"," ","t","o"," ","k","e","e","p"," ","c","h","e","c","k","i","n","g","." >> >>,
    << << "t","e","x","t","_","l","e","f","t","_","i","m","a","g","e","_","r","i","g","h","t","_","m","o","d","u","l","e" >>, << "u","s","p","_","f","e","a","t","u","r","e","_","3","_","i","m","a","g","e","_","u","r","l" >>,
       << "h","t","t","p","s",":","/","/","p","l","a","c","e","h","o","l","d",".","c","o","/","2","8","0","x","2","0","0","/","f","c","f","7","f","5","/","6","1","5","a","5","6","?","t","e","x","t","=","T","r","a","c","k" >> >>,
    << << "a","l","t","e","r","n","a","t","i","n","g","_","t","e","x","t","_","i","m","a","g","e","_","m","o","d","u","l","e" >>, << "t","i","t","l","e" >>,
       << "H","o","w"," ","V","i","o"," ","h","e","l","p","s"," ","y","o","u"," ","b","o","o","k"," ","l","i","k","e"," ","a","n"," ","i","n","s","i","d","e","r" >> >>,
    << << "a","l","t","e","r","n","a","t","i","n","g","_","t","e","x","t","_","i","m","a","g","e","_","m","o","d","u","l","e" >>, << "u","s","p","_","u","i","_","1","_","h","e","a","d","i","n","g" >>,
       << "C","o","m","p","a","r","e"," ","p","r","i","c","e","s"," ","a","c","r","o","s","s"," ","1","0","0","+"," ","s","i","t","e","s" >> >>,
    << << "a","l","t","e","r","n","a","t","i","n","g","_","t","e","x","t","_","i","m","a","g","e","_","m","o","d","u","l","e" >>, << "u","s","p","_","u","i","_","1","_","c","o","p","y" >>,
       << "S","e","e"," ","t","h","e"," ","f","u","l","l"," ","p","i","c","t","u","r","e"," ","u","p","f","r","o","n","t","."," ","N","o"," ","g","u","e","s","s","i","n","g",","," ","n","o"," ","b","o","u","n","c","i","n","g"," ","b","e","t","w","e","e","n"," ","t","a","b","s","." >> >>,
    << << "a","l","t","e","r","n","a","t","i","n","g","_","t","e","x","t","_","i","m","a","g","e","_","m","o","d","u","l","e" >>, << "u","s","p","_","u","i","_","1","_","i","m","a","g","e","_","u","r","l" >>,
       << "h","t","t","p","s",":","/","/","p","l","a","c","e","h","o","l","d",".","c","o","/","2","8","0","x","2","0","0","/","e","1","c","e","f","f","/","7","1","3","0","c","9","?","t","e","x","t","=","C","o","m","p","a","r","e" >> >>,
    << << "a","l","t","e","r","n","a","t","i","n","g","_","t","e","x","t","_","i","m","a","g","e","_","m","o","d","u","l","e" >>, << "u","s","p","_","u","i","_","2","_","h","e","a","d","i","n","g" >>,
       << "K","n","o","w"," ","e","x","a","c","t","l","y"," ","w","h","e","n"," ","t","o"," ","b","o","o","k" >> >>,
    << << "a","l","t","e","r","n","a","t","i","n","g","_","t","e","x","t","_","i","m","a","g","e","_","m","o","d","u","l","e" >>, << "u","s","p","_","u","i","_","2","_","c","o","p","y" >>,
       << "P","r","i","c","e"," ","i","n","s","i","g","h","t","s"," ","s","h","o","w"," ","y","o","u"," ","t","h","e"," ","r","i","g","h","t"," ","m","o","m","e","n","t"," ","t","o"," ","s","e","c","u","r","e"," ","y","o","u","r"," ","d","e","a","l","." >> >>,
    << << "a","l","t","e","r","n","a","t","i","n","g","_","t","e","x","t","_","i","m","a","g","e","_","m","o","d","u","l","e" >>, << "u","s","p","_","u","i","_","2","_","i","m","a","g","e","_","u","r","l" >>,
       << "h","t","t","p","s",":","/","/","p","l","a","c","e","h","o","l","d",".","c","o","/","2","8","0","x","2","0","0","/","e","1","c","e","f","f","/","7","1","3","0","c","9","?","t","e","x","t","=","W","h","e","n" >> >>,
    << << "a","l","t","e","r","n","a","t","i","n","g","_","t","e","x","t","_","i","m","a","g","e","_","m","o","d","u","l","e" >>, << "u","s","p","_","u","i","_","3","_","h","e","a","d","i","n","g" >>,
       << "S","t","a","y"," ","a","h","e","a","d"," ","o","f"," ","p","r","i","c","e"," ","c","h","a","n","g","e","s" >> >>,
    << << "a","l","t","e","r","n","a","t","i","n","g","_","t","e","x","t","_","i","m","a","g","e","_","m","o","d","u","l","e" >>, << "u","s","p","_","u","i","_","3","_","c","o","p","y" >>,
       << "W","e"," ","t","r","a","c","k"," ","p","r","i","c","e","s"," ","s","o"," ","y","o","u"," ","d","o","n","'","t"," ","h","a","v","e"," ","t","o"," ","k","e","e","p"," ","c","h","e","c","k","i","n","g","." >> >>,
    << << "a","l","t","e","r","n","a","t","i","n","g","_","t","e","x","t","_","i","m","a","g","e","_","m","o","d","u","l","e" >>, << "u","s","p","_","u","i","_","3","_","i","m","a","g","e","_","u","r","l" >>,
       << "h","t","t","p","s",":","/","/","p","l","a","c","e","h","o","l","d",".","c","o","/","2","8","0","x","2","0","0","/","e","1","c","e","f","f","/","7","1","3","0","c","9","?","t","e","x","t","=","T","r","a","c","k" >> >> }

\* _PREVIEW_PLACEHOLDERS[mod].get(key), None when absent
PreviewGet(mod, key) ==
  IF \E e \in PREVIEW_PLACEHOLDERS : e[1] = mod /\ e[2] = key
  THEN (CHOOSE e \in PREVIEW_PLACEHOLDERS : e[1] = mod /\ e[2] = key)[3]
  ELSE None

\* placeholders.get(csv_key, placeholders.get(csv_key.replace("_", ""), ""))
PreviewValue(mod, csv_key) ==
  IF PreviewGet(mod, csv_key) # None THEN PreviewGet(mod, csv_key)
  ELSE IF PreviewGet(mod, replace(csv_key, << "_" >>, << >>)) # None
  THEN PreviewGet(mod, replace(csv_key, << "_" >>, << >>))
  ELSE << >>

\* the rows get_module_preview_html appends for modules[i..]
\* (Key, Module, module_index, en)
RECURSIVE PreviewRows(_, _)
PreviewRows(modules, i) ==
  IF i > Len(modules) THEN << >>
  ELSE LET mod == modules[i]
           own == IF mod \in DOMAIN MODULE_TEMPLATE_ROWS
                     /\ (\E e \in PREVIEW_PLACEHOLDERS : e[1] = mod)
                  THEN [ r \in 1..Len(MODULE_TEMPLATE_ROWS[mod]) |->
                           << MODULE_TEMPLATE_ROWS[mod][r][1], mod, Str(ModuleIndex(modules, i)),
                              PreviewValue(mod, MODULE_TEMPLATE_ROWS[mod][r][1]) >> ]
                  ELSE << >>
       IN  own \o PreviewRows(modules, i + 1)

\* headers
F_preview == << S_Key, << "M","o","d","u","l","e" >>, << "m","o","d","u","l","e","_","i","n","d","e","x" >>, S_en >>

\* the arguments generate_template gets from get_module_preview_html
PreviewEnv(modules) ==
  [ design_tokens |-> DefaultEnv.design_tokens,
    show |-> << << "F","A","L","S","E" >>, << "F","A","L","S","E" >>,
                IF << "d","i","s","c","l","a","i","m","e","r","_","m","o","d","u","l","e" >> \in Range(modules) THEN << "T","R","U","E" >> ELSE << "F","A","L","S","E" >> >>,
    liquid |-> None ]

\* the module selections of the preview pane: nothing, a name that is no
\* module, and the selections of the templates
PreviewSelections == << << >>, << << "n","o","_","m","o","d","u","l","e" >> >> >> \o Selections

\* what get_module_preview_html returns when there is nothing to show
SelectModulesHtml == << "<p style='padding:20px;color:#615a56;'>Select modules to see a preview.</p>" >>

\* sheets for calls repeated with a full_email_template.liquid beside the
\* script: without terms texts, with one, with all four
RerunSheets ==
  { << << S_headline, T_Hello >> >>,
    << << S_headline, T_Hello >>, << S_terms_title, T_Hello >> >>,
    << << S_terms_title, T_Hello >>, << S_terms_label, T_Hello >>,
       << S_privacy_label, T_Hello >>, << S_terms_desc_text, T_Hello >> >> }

\* the repeated calls start without the file or with an empty one
Reruns ==
  { << F_one, None, s, [DefaultEnv EXCEPT !.liquid = l] >> : s \in RerunSheets, l \in { None, << >> } }

(***************************************************************************)
(* Locale presets (lines 23-45) and main (lines 1581-1631)                  *)
(***************************************************************************)
LOCALE_PRESET_EN_ONLY == << S_en >>
LOCALE_PRESET_GLOBAL == LOCALE_COLUMNS


\* list(dict.fromkeys(xs)): the first occurrence of each element, in order
fromkeys(xs) ==
  LET first == { i \in 1..Len(xs) : \A j \in 1..(i - 1) : xs[j] # xs[i] }
      RECURSIVE Pick(_)
      Pick(i) == IF i > Len(xs) THEN << >>
                 ELSE (IF i \in first THEN << xs[i] >> ELSE << >>) \o Pick(i + 1)
  IN  Pick(1)

\* resolve_include_locales that leaves a custom list as selected
resolve_include_locales_AsSelected(preset, custom) ==
  IF preset = << "c","u","s","t","o","m" >> /\ custom # None /\ custom # << >>
  THEN custom
  ELSE IF preset = << "e","n","_","o","n","l","y" >> THEN LOCALE_PRESET_EN_ONLY
  ELSE IF preset = << "t","o","p","_","5" >> THEN LOCALE_PRESET_TOP_5
  ELSE IF preset = << "g","l","o","b","a","l" >> THEN LOCALE_PRESET_GLOBAL
  ELSE LOCALE_PRESET_EN_ONLY

\* resolve_include_locales; custom is None when the argument is not given
resolve_include_locales(preset, custom) ==
  IF preset = << "c","u","s","t","o","m" >> /\ custom # None /\ custom # << >>
  THEN LET deduped == fromkeys(custom)
           with_en == IF S_en \in Range(deduped) THEN deduped ELSE << S_en >> \o deduped
       IN  SelectSeq(with_en, LAMBDA l : l \in Range(LOCALE_COLUMNS))
  ELSE IF preset = << "e","n","_","o","n","l","y" >> THEN LOCALE_PRESET_EN_ONLY
  ELSE IF preset = << "t","o","p","_","5" >> THEN LOCALE_PRESET_TOP_5
  ELSE IF preset = << "g","l","o","b","a","l" >> THEN LOCALE_PRESET_GLOBAL
  ELSE LOCALE_PRESET_EN_ONLY

\* [x.strip() for x in s.split(",") if x.strip()]
RECURSIVE SplitStrip(_, _)
SplitStrip(s, from) ==
  LET i == IF from > Len(s) THEN 0 ELSE NextMatch(s, << "," >>, from)
      piece == strip(SubSeq(s, from, IF i = 0 THEN Len(s) ELSE i - 1))
      here == IF piece = << >> THEN << >> ELSE << piece >>
  IN  IF i = 0 THEN here ELSE here \o SplitStrip(s, i + 1)

\* spreadsheets given on the command line: usable ones, and ones none of
\* whose rows has a known content key
MainSheets ==
  { << F_one, << << S_headline, T_Hello >> >> >>,
    << F_one, << >> >>,
    << F_one, << << << "f","o","o" >>, << "b","a","r" >> >> >> >>,
    << F_one, << << << >>, T_Hello >>, << U_blank, T_Hello >> >> >>,
    << F_one, << << S_headline >> >> >>,
    << F_three, << << S_headline, T_Hello, << "H","o","l","a" >> >>, << S_cta_link, U_schemed >> >> >>,
    << F_three, << << << "H","e","a","d"," ","L","i","n","e" >>, T_Hello >> >> >>,
    << F_module, << << S_headline, << "h","e","r","o","_","m","o","d","u","l","e" >>, << "1" >>, T_Hello >> >> >>,
    << F_module, << << << "f","o","o" >>, << "h","e","r","o","_","m","o","d","u","l","e" >>, << "1" >>, << "b","a","r" >> >> >> >>,
    << F_module, << << S_headline, << "n","o","_","m","o","d","u","l","e" >>, << "1" >>, T_Hello >> >> >> }

\* the arguments --locale-preset and --include-locales (<< >>: not given)
MainArgs ==
  { [ preset |-> p, custom |-> << >>, widgets |-> << >>, include_locales |-> None ] :
       p \in { << >>, << "e","n","_","o","n","l","y" >>, << "t","o","p","_","5" >>, << "g","l","o","b","a","l" >> } }
    \cup { [ preset |-> p, custom |-> c, widgets |-> << >>, include_locales |-> None ] :
             p \in { << >>, << "g","l","o","b","a","l" >> }, c \in { << "e","s" >>, << "e","n",","," ","e","s","," >>, << " ","," >>, << "x","x",",","e","n" >> } }

\* main up to the call of generate_template (lines 1613-1620)
MainStart ==
  /\ caller = "main"
  /\ pc = "main"
  /\ IF ~exists
     THEN /\ raised' = "SystemExit"
          /\ message' = "CSV file not found"
          /\ status' = 1
          /\ pc' = "exited"
          /\ UNCHANGED include_locales
     ELSE /\ include_locales' =
               IF options.custom # << >> THEN SplitStrip(options.custom, 1)
               ELSE IF options.preset # << >> THEN resolve_include_locales(options.preset, None)
               ELSE None
          /\ pc' = "start"
          /\ UNCHANGED << raised, message, status >>
  /\ UNCHANGED << entry, exists, fields, env, locales, locale_to_header, rows, translations,
                  structure, internal_key, fragments, result, sheet, caller, preview >>
  /\ UNCHANGED << options, stdout, dt, download >>

\* main after generate_template: sys.stdout.write(result) and exit status 0,
\* or the exception ends the process with its message and status 1
MainExit ==
  /\ caller = "main"
  /\ pc \in { "done", "raised" }
  /\ IF pc = "done"
     THEN /\ stdout' = result
          /\ status' = 0
     ELSE /\ status' = 1
          /\ UNCHANGED stdout
  /\ pc' = "exited"
  /\ UNCHANGED << entry, exists, fields, include_locales, env, locales, locale_to_header, rows,
                  translations, structure, internal_key, fragments, result, raised, message,
                  sheet, caller, preview >>
  /\ UNCHANGED << options, dt, download >>

(***************************************************************************)
(* The UI: sidebar (app.py 46-70) and template tab (app.py 174-212)        *)
(***************************************************************************)

\* the list  modules  of the template tab; w is (hero_type, include_app_download,
\* include_usp, include_usp_feature, include_disclaimer)
UiModules(w) ==
  << w[1] >>
    \o (IF w[2] THEN << << "a","p","p","_","d","o","w","n","l","o","a","d","_","m","o","d","u","l","e" >> >> ELSE << >>)
    \o (IF w[3] THEN << << "u","s","p","_","m","o","d","u","l","e" >> >> ELSE << >>)
    \o (IF w[4] THEN << << "u","s","p","_","f","e","a","t","u","r","e","_","m","o","d","u","l","e" >> >> ELSE << >>)
    \o (IF w[5] THEN << << "d","i","s","c","l","a","i","m","e","r","_","m","o","d","u","l","e" >> >> ELSE << >>)

\* the widget states of the template tab
UiWidgets ==
  { << h, a, u, f, d >> : h \in { << "h","e","r","o","_","m","o","d","u","l","e" >>, << "h","e","r","o","_","m","o","d","u","l","e","_","t","w","o","_","c","o","l","u","m","n" >> },
                          a \in BOOLEAN, u \in BOOLEAN, f \in BOOLEAN, d \in BOOLEAN }

\* the template tab as first shown
DefaultWidgets == << << "h","e","r","o","_","m","o","d","u","l","e" >>, TRUE, FALSE, FALSE, FALSE >>

\* custom lists: what the multiselect can hold (empty, its default, en last,
\* en missing) and lists only a direct call can pass (a code twice, codes
\* that are not in LOCALE_COLUMNS)
CustomLists ==
  { << >>, << << "e","n" >>, << "e","s" >>, << "f","r" >>, << "d","e" >>, << "n","l" >> >>, << S_es, S_en >>, << S_es, << "f","r" >> >>,
    << S_ar >>, << S_ar, S_es, S_ar, S_en >>, << S_es, S_es >>, << << "x","x" >>, S_es >>, << << "x","x" >> >>,
    << << "E","N" >>, << "n","l" >>, << "x","x" >>, << "d","e" >> >> }

\* (locale_preset, custom_locales) of the sidebar, and presets only a direct
\* call can pass
LocaleChoices ==
  { << p, << >> >> : p \in { << "e","n","_","o","n","l","y" >>, << "t","o","p","_","5" >>, << "g","l","o","b","a","l" >>, << "a","l","l" >>, << >> } }
    \cup { << << "c","u","s","t","o","m" >>, c >> : c \in CustomLists }
    \cup { << << "t","o","p","_","5" >>, << S_es >> >> }

UiOptions ==
  { [ preset |-> l[1], custom |-> l[2], widgets |-> DefaultWidgets, include_locales |-> None ] :
      l \in LocaleChoices }
    \cup { [ preset |-> << "e","n","_","o","n","l","y" >>, custom |-> << >>, widgets |-> w, include_locales |-> None ] :
             w \in UiWidgets }

\* the sidebar: include_locales = resolve_include_locales(locale_preset,
\* custom_locales if locale_preset == "custom" else None)
Sidebar ==
  /\ caller = "tab_template"
  /\ pc = "sidebar"
  /\ options' = [ options EXCEPT !.include_locales =
                    resolve_include_locales(options.preset,
                      IF options.preset = << "c","u","s","t","o","m" >> THEN options.custom ELSE None) ]
  /\ pc' = "tab_template"
  /\ UNCHANGED << entry, exists, fields, include_locales, env, locales, locale_to_header, rows,
                  translations, structure, internal_key, fragments, result, raised, message,
                  sheet, caller, preview, status, stdout, dt, download >>

\* the template tab calls get_module_preview_html(modules): the rows it
\* builds for the selected modules and the arguments it passes on
TabTemplatePreview ==
  /\ caller = "tab_template"
  /\ pc = "tab_template"
  /\ fields' = F_preview
  /\ sheet' = PreviewRows(UiModules(options.widgets), 1)
  /\ env' = PreviewEnv(UiModules(options.widgets))
  /\ pc' = "staging"
  /\ UNCHANGED << entry, exists, include_locales, locales, locale_to_header, rows,
                  translations, structure, internal_key, fragments, result, raised, message,
                  caller, preview, options, status, stdout, dt, download >>

\* the template tab after the preview (an exception of the preview call
\* ends the script run before):
\* generate_standard_input_template(modules, include_locales=include_locales)
TabTemplateCsv ==
  /\ caller = "tab_template"
  /\ pc = "finished"
  /\ raised = "none"
  /\ download' = generate_standard_input_template(UiModules(options.widgets), options.include_locales)
  /\ pc' = "offered"
  /\ UNCHANGED << entry, exists, fields, include_locales, env, locales, locale_to_header, rows,
                  translations, structure, internal_key, fragments, result, raised, message,
                  sheet, caller, preview, options, status, stdout, dt >>

\* sheets with the columns en and es (and ar), read for locale lists that
\* name a locale the sheet has no column for
F_en_es == << S_Key, S_en, S_es >>

LocaleRuns ==
  { << F_en_es, inc, << << S_headline, T_Hello, << "H","o","l","a" >> >>, << S_cta_link, U_schemed, << >> >> >>, DefaultEnv >> :
      inc \in { << S_en, S_es >>, << S_en, S_ar >>, << S_es, S_ar >>, << S_en, << "f","r" >> >>,
                LOCALE_PRESET_TOP_5 } }
    \cup { << F_three, inc, << << S_headline, T_Hello, << "H","o","l","a" >>, << "M","a","r","h","a","b","a" >> >> >>, DefaultEnv >> :
             inc \in { << S_en, << "z","h","-","c","n" >> >>, << S_en, S_ar, S_es >> } }

\* header rows at and around the Module shape, each with one row of cells
\* headline, hero_module, 1, Hello cut to the header's width
ShapeHeaders ==
  { << S_Key >>,
    << S_Key, << "M","o","d","u","l","e" >> >>,
    << S_Key, << "M","o","d","u","l","e" >>, << "m","o","d","u","l","e","_","i","n","d","e","x" >> >>,
    << S_Key, << " ","M","O","D","U","L","E"," " >>, << "M","o","d","u","l","e","_"," ","I","n","d","e","x" >>, S_en >>,
    << S_Key, << "M","o","d","u","l","e" >>, << "m","o","d","u","l","e","_","i","n","d","e","x" >>, S_en, << "E","s" >> >>,
    << S_Key, << "M","o","d","u","l","e" >>, << "m","o","d","u","l","e","_","i","n","d","e","x" >>, << "x" >> >>,
    << S_Key, << "M","o","d","u","l","e" >>, << "m","o","d","u","l","e","_","i","n","d","e","x" >>, << >>, << "x" >> >>,
    << S_Key, << "m","o","d","u","l","e","s" >>, << "m","o","d","u","l","e","_","i","n","d","e","x" >>, S_en >>,
    << S_Key, << "m","o","d"," ","u","l","e" >>, << "m","o","d","u","l","e","_","i","n","d","e","x" >>, S_en >>,
    << S_Key, << "M","o","d","u","l","e" >>, << "m","o","d","u","l","e","-","i","n","d","e","x" >>, S_en >>,
    << S_Key, << "M","o","d","u","l","e" >>, << "M","o","d","u","l","e"," ","I","n","d","e","x" >>, S_en >>,
    << S_Key, S_en, << "M","o","d","u","l","e" >>, << "m","o","d","u","l","e","_","i","n","d","e","x" >> >>,
    << S_Key, << >>, << "x" >> >> }

ShapeRuns ==
  { << h, None, << SubSeq(<< S_headline, << "h","e","r","o","_","m","o","d","u","l","e" >>, << "1" >>, T_Hello, << "H","o","l","a" >> >>, 1, Len(h)) >>,
       DefaultEnv >> : h \in ShapeHeaders }

\* (header row, include_locales, rows, side inputs) of the staged files
Staged ==
  { << F_one, None, s, DefaultEnv >> : s \in HeroSheets \cup ImageSheets \cup CopySheets \cup DelimiterSheets
                                            \cup FailingSheets }
    \cup { << F_one, None, s, e >> : s \in ModuleSheets, e \in { DefaultEnv, HiddenEnv } }

\* (header row, include_locales, rows) of the uploads; the last two have a
\* header with an ar column that the requested locales leave out
Uploads ==
  { << F_one, None, s >> : s \in UploadSheets }
    \cup { << F_three, << S_en >>, s >> : s \in UploadSheets }
    \cup { << F_legacy, << S_en >>, << << S_headline, T_Hello >> >> >>,
           << F_legacy, << S_en >>, << << S_headline, T_Hello, << "M" >> >> >> >> }

\* the strings the sidebar toggles give generate_template:
\* "TRUE" if show_header_logo else "FALSE", and so on
UiEnvs ==
  { [ DefaultEnv EXCEPT !.show = << IF a THEN << "T","R","U","E" >> ELSE << "F","A","L","S","E" >>,
                                    IF b THEN << "T","R","U","E" >> ELSE << "F","A","L","S","E" >>,
                                    IF c THEN << "T","R","U","E" >> ELSE << "F","A","L","S","E" >> >> ] :
      a \in BOOLEAN, b \in BOOLEAN, c \in BOOLEAN }

\* a direct call of generate_template on a file that exists (a staged file
\* or a generated input template), or a handler about to stage its file
SheetInit ==
  /\ entry = "generate_template"
  /\ \/ /\ options = NoOptions
        /\ caller = "none"
        /\ pc = "start"
        /\ exists = TRUE
        /\ \E st \in Staged \cup Reruns \cup LocaleRuns \cup ShapeRuns :
             /\ fields = st[1]
             /\ include_locales = st[2]
             /\ sheet = st[3]
             /\ env = st[4]
     \/ /\ options = NoOptions
        /\ caller = "none"
        /\ pc = "start"
        /\ exists = TRUE
        /\ \E c \in TemplateCases :
             /\ fields = TemplateOf(c).header
             /\ include_locales = IF c.given THEN TemplateLocales[c.locs] ELSE None
             /\ sheet = TemplateSheet(c)
        /\ env = DefaultEnv
     \/ /\ caller = "main"
        /\ pc = "main"
        /\ exists \in BOOLEAN
        /\ include_locales = None
        /\ env = DefaultEnv
        /\ \E m \in MainSheets :
             /\ fields = m[1]
             /\ sheet = m[2]
        /\ options \in MainArgs
     \/ /\ caller = "tab_template"
        /\ pc = "sidebar"
        /\ exists = FALSE
        /\ fields = << >>
        /\ include_locales = None
        /\ sheet = << >>
        /\ env = DefaultEnv
        /\ options \in UiOptions
     \/ /\ options = NoOptions
        /\ caller = "tab_generate"
        /\ pc = "staging"
        /\ exists = FALSE
        /\ \E up \in Uploads :
             /\ fields = up[1]
             /\ include_locales = up[2]
             /\ sheet = up[3]
        /\ env \in UiEnvs
     \/ /\ options = NoOptions
        /\ caller = "get_module_preview_html"
        /\ pc = "staging"
        /\ exists = FALSE
        /\ fields = F_preview
        /\ include_locales = None
        /\ \E i \in 1..Len(PreviewSelections) :
             /\ sheet = PreviewRows(PreviewSelections[i], 1)
             /\ env = PreviewEnv(PreviewSelections[i])
  /\ locales = None
  /\ locale_to_header = EmptyDict
  /\ rows = << >>
  /\ translations = EmptyDict
  /\ structure = EmptyDict
  /\ internal_key = None
  /\ fragments = None
  /\ result = None
  /\ raised = "none"
  /\ message = ""
  /\ preview = None
  /\ status = -1
  /\ stdout = << >>
  /\ dt = NoParse
  /\ download = None

\* one iteration of  for row in reader  (lines 387-420) over the staged file
LoadSheetRow ==
  /\ pc = "rows"
  /\ Len(rows) < Len(sheet)
  /\ LET row == sheet[Len(rows) + 1]
         key_raw == KeyRaw(fields, row)
         module_raw == ModuleRaw(fields, row)
         vals == ValuesByLocale(fields, locale_to_header, locales, row)
         key == InternalKey(UseModuleFormat(fields), module_raw, key_raw)
     IN  /\ rows' = Append(rows, row)
         /\ IF key_raw = << >>
            THEN /\ internal_key' = None
                 /\ UNCHANGED << pc, translations, structure, raised, message >>
            ELSE IF RowRaises(fields, locale_to_header, locales, row)
            THEN /\ raised' = "AttributeError"
                 /\ message' = "'NoneType' object has no attribute 'strip'"
                 /\ pc' = "raised"
                 /\ UNCHANGED << translations, structure, internal_key >>
            ELSE IF key = None
            THEN /\ internal_key' = None
                 /\ UNCHANGED << pc, translations, structure, raised, message >>
            ELSE /\ internal_key' = key
                 /\ IF key \in Range(STRUCTURE_KEYS)
                    THEN /\ structure' = StoreStructure(structure, key, vals, locales)
                         /\ UNCHANGED translations
                    ELSE /\ translations' = Put(translations, key, Backfill(vals, locales))
                         /\ UNCHANGED structure
                 /\ UNCHANGED << pc, raised, message >>
  /\ UNCHANGED << entry, exists, fields, include_locales, env, locales, locale_to_header,
                  fragments, result, sheet, caller, preview >>
  /\ UNCHANGED << options, status, stdout, dt, download >>

\* the reader of the staged file is exhausted: return translations, structure
LoadSheetReturn ==
  /\ pc = "rows"
  /\ Len(rows) = Len(sheet)
  /\ pc' = "loaded"
  /\ UNCHANGED << entry, exists, fields, include_locales, env, locales, locale_to_header,
                  rows, translations, structure, internal_key, fragments, result, raised, message,
                  sheet, caller, preview >>
  /\ UNCHANGED << options, status, stdout, dt, download >>

\* the callers that run get_module_preview_html: a direct call, the template tab
PreviewCallers == { "get_module_preview_html", "tab_template" }

\* the callers that stage a temporary file
Handlers == { "tab_generate" } \cup PreviewCallers

\* the handler writes the spreadsheet to a NamedTemporaryFile(delete=False)
\* (app.py lines 90-98, get_module_preview_html lines 1089-1091)
StageTempFile ==
  /\ pc = "staging"
  /\ caller \in Handlers
  /\ caller \in PreviewCallers => sheet # << >>
  /\ exists' = TRUE
  /\ pc' = "start"
  /\ UNCHANGED << entry, fields, include_locales, env, locales, locale_to_header, rows,
                  translations, structure, internal_key, fragments, result, raised, message,
                  sheet, caller, preview >>
  /\ UNCHANGED << options, status, stdout, dt, download >>

\* get_module_preview_html with no module selected, or none that has rows:
\* it returns before a file is created (lines 1069-1070 and 1082-1083)
PreviewNothingSelected ==
  /\ pc = "staging"
  /\ caller \in PreviewCallers
  /\ sheet = << >>
  /\ preview' = SelectModulesHtml
  /\ pc' = "finished"
  /\ UNCHANGED << entry, exists, fields, include_locales, env, locales, locale_to_header, rows,
                  translations, structure, internal_key, fragments, result, raised, message,
                  sheet, caller >>
  /\ UNCHANGED << options, status, stdout, dt, download >>

\* something else removes the staged file before generate_template tests for
\* it: the case the handler's  except FileNotFoundError  is written for
TempFileRemoved ==
  /\ pc = "start"
  /\ caller \in Handlers
  /\ exists
  /\ exists' = FALSE
  /\ UNCHANGED << pc, entry, fields, include_locales, env, locales, locale_to_header, rows,
                  translations, structure, internal_key, fragments, result, raised, message,
                  sheet, caller, preview >>
  /\ UNCHANGED << options, status, stdout, dt, download >>

\* after generate_template returned: the handler reads the file again with
\* load_translations(tmp_path) and renders the preview
HandlerPreview ==
  /\ pc = "done"
  /\ caller \in Handlers
  /\ LET again == load_translations(fields, sheet, None)
     IN  IF again.raised # "none"
         THEN /\ raised' = again.raised
              /\ message' = "'NoneType' object has no attribute 'strip'"
              /\ pc' = "raised"
              /\ UNCHANGED preview
         ELSE /\ preview' = liquid_to_preview_html(result, again.translations, again.structure,
                                                    PreviewFlags(env))
              /\ pc' = "previewed"
              /\ UNCHANGED << raised, message >>
  /\ UNCHANGED << entry, exists, fields, include_locales, env, locales, locale_to_header, rows,
                  translations, structure, internal_key, fragments, result, sheet, caller >>
  /\ UNCHANGED << options, status, stdout, dt, download >>

\* HandlerExit that unlinks the file at the end of the try block only
HandlerExit_NoFinally ==
  /\ pc \in { "previewed", "raised" }
  /\ caller \in Handlers
  /\ exists' = IF pc = "previewed" THEN FALSE ELSE exists
  /\ pc' = "finished"
  /\ UNCHANGED << entry, fields, include_locales, env, locales, locale_to_header, rows,
                  translations, structure, internal_key, fragments, result, raised, message,
                  sheet, caller, preview >>
  /\ UNCHANGED << options, status, stdout, dt, download >>

\* the handler leaves its try block, normally or by an exception:
\* finally: tmp_path.unlink(missing_ok=True)
HandlerExit ==
  /\ pc \in { "previewed", "raised" }
  /\ caller \in Handlers
  /\ exists' = FALSE
  /\ pc' = "finished"
  /\ UNCHANGED << entry, fields, include_locales, env, locales, locale_to_header, rows,
                  translations, structure, internal_key, fragments, result, raised, message,
                  sheet, caller, preview >>
  /\ UNCHANGED << options, status, stdout, dt, download >>

\* between two calls: the template the first call returned is saved as
\* full_email_template.liquid beside the script, and the same call is made again
SaveTemplate ==
  /\ caller = "none"
  /\ pc = "done"
  /\ entry = "generate_template"
  /\ sheet \in RerunSheets
  /\ env = DefaultEnv
  /\ env' = [env EXCEPT !.liquid = result]
  /\ pc' = "start"
  /\ locales' = None
  /\ locale_to_header' = EmptyDict
  /\ rows' = << >>
  /\ translations' = EmptyDict
  /\ structure' = EmptyDict
  /\ internal_key' = None
  /\ fragments' = None
  /\ result' = None
  /\ UNCHANGED << entry, exists, fields, include_locales, raised, message, sheet, caller, preview >>
  /\ UNCHANGED << options, status, stdout, dt, download >>

SheetNext ==
  \/ GenerateTemplateStart
  \/ LoadTranslationsOpen
  \/ LoadSheetRow
  \/ LoadSheetReturn
  \/ GenerateTemplateFinish
  \/ StageTempFile
  \/ PreviewNothingSelected
  \/ TempFileRemoved
  \/ HandlerPreview
  \/ HandlerExit
  \/ SaveTemplate
  \/ MainStart
  \/ MainExit
  \/ Sidebar
  \/ TabTemplatePreview
  \/ TabTemplateCsv

SheetSpec == SheetInit /\ [][SheetNext]_vars

(***************************************************************************)
(* _parse_design_tokens (lines 1634-1649)                                  *)
(***************************************************************************)

\* a token name token_x and a literal value
Tok(x) == << "token_", x >>
Lit(x) == << "#", x >>

\* v.startswith("token_")
StartsWithToken(v) == Len(v) >= 1 /\ v[1] = "token_"

\* the keys of an ordered dict kept as a list of (key, value) pairs
Keys(d) == { d[i][1] : i \in 1..Len(d) }

\* d[k]
Lookup(d, k) == d[CHOOSE i \in 1..Len(d) : d[i][1] = k][2]

\* d[k] = v: a new key goes to the end, a known key keeps its place
Store(d, k, v) ==
  IF k \in Keys(d) THEN [ i \in 1..Len(d) |-> IF d[i][1] = k THEN << k, v >> ELSE d[i] ]
  ELSE Append(d, << k, v >>)

\* dict(pairs) for the (name, value) pairs re.findall returns, from pair i on
RECURSIVE DictFrom(_, _, _)
DictFrom(pairs, i, d) ==
  IF i > Len(pairs) THEN d ELSE DictFrom(pairs, i + 1, Store(d, pairs[i][1], pairs[i][2]))

\* the values a token of a small file can be assigned: a token of the file,
\* a literal, a token name the file does not define
SmallValues == { Tok("a"), Tok("b"), Tok("c"), Lit("1"), Tok("z") }

\* all orders of the elements of a set, as lists
RECURSIVE Orders(_)
Orders(S) ==
  IF S = {} THEN { << >> }
  ELSE UNION { { << x >> \o o : o \in Orders(S \ { x }) } : x \in S }

\* token files as lists of assignments: every assignment of three tokens in
\* every order, the chain a -> b -> c -> d -> literal and the cycle through
\* four tokens in every order, a file that assigns a token twice, an empty file
TokenFiles ==
  UNION { Orders({ << Tok("a"), va >>, << Tok("b"), vb >>, << Tok("c"), vc >> }) :
            va \in SmallValues, vb \in SmallValues, vc \in SmallValues }
    \cup Orders({ << Tok("a"), Tok("b") >>, << Tok("b"), Tok("c") >>, << Tok("c"), Tok("d") >>,
                  << Tok("d"), Lit("2") >> })
    \cup Orders({ << Tok("a"), Tok("b") >>, << Tok("b"), Tok("c") >>, << Tok("c"), Tok("d") >>,
                  << Tok("d"), Tok("a") >> })
    \cup { << << Tok("a"), Tok("b") >>, << Tok("b"), Lit("1") >>, << Tok("a"), Lit("2") >> >>,
           << << Tok("a"), Lit("1") >>, << Tok("b"), Tok("a") >>, << Tok("a"), Tok("b") >> >>,
           << >> }

\* the variables _parse_design_tokens does not touch
NotTokens ==
  << pc, entry, exists, fields, include_locales, env, locales, locale_to_header, rows,
     translations, structure, internal_key, fragments, result, raised, message, sheet,
     caller, preview, options, status, stdout, download >>

TokenInit ==
  /\ pc = "start"
  /\ entry = "_parse_design_tokens"
  /\ exists \in BOOLEAN
  /\ fields = << >>
  /\ include_locales = None
  /\ env = DefaultEnv
  /\ locales = None
  /\ locale_to_header = EmptyDict
  /\ rows = << >>
  /\ translations = EmptyDict
  /\ structure = EmptyDict
  /\ internal_key = None
  /\ fragments = None
  /\ result = None
  /\ raised = "none"
  /\ message = ""
  /\ sheet = << >>
  /\ caller = "none"
  /\ preview = None
  /\ options = NoOptions
  /\ status = -1
  /\ stdout = << >>
  /\ download = None
  /\ \E f \in TokenFiles :
       dt = [ pc |-> "read", file |-> f, tokens |-> << >>, items |-> << >>, pass |-> 0, pos |-> 0 ]

\* lines 1637-1643: no file gives {}, else tokens = dict(re.findall(...));
\* exists says whether the token file is there
TokenRead ==
  /\ dt.pc = "read"
  /\ dt' = IF ~exists THEN [ dt EXCEPT !.pc = "returned" ]
           ELSE [ dt EXCEPT !.pc = "pass", !.tokens = DictFrom(dt.file, 1, << >>) ]
  /\ UNCHANGED NotTokens

\* for _ in range(3): the inner loop starts over list(tokens.items())
TokenPass ==
  /\ dt.pc = "pass"
  /\ dt.pass < 3
  /\ dt' = [ dt EXCEPT !.pc = "item", !.items = dt.tokens, !.pos = 1 ]
  /\ UNCHANGED NotTokens

\* one turn of the inner loop: k, v of the snapshot, tokens[v] as it is now
TokenItem ==
  /\ dt.pc = "item"
  /\ dt.pos <= Len(dt.items)
  /\ LET k == dt.items[dt.pos][1]
         v == dt.items[dt.pos][2]
     IN  dt' = [ dt EXCEPT !.pos = dt.pos + 1,
                           !.tokens = IF StartsWithToken(v) /\ v \in Keys(dt.tokens)
                                      THEN Store(dt.tokens, k, Lookup(dt.tokens, v))
                                      ELSE dt.tokens ]
  /\ UNCHANGED NotTokens

\* the inner loop is through: the next turn of the outer loop
TokenPassEnd ==
  /\ dt.pc = "item"
  /\ dt.pos > Len(dt.items)
  /\ dt' = [ dt EXCEPT !.pc = "pass", !.pass = dt.pass + 1 ]
  /\ UNCHANGED NotTokens

\* TokenReturn that leaves the outer loop once a pass changed nothing
TokenReturn_WhenStable ==
  /\ dt.pc = "pass"
  /\ dt.pass = 3 \/ (dt.pass >= 1 /\ dt.tokens = dt.items)
  /\ dt' = [ dt EXCEPT !.pc = "returned" ]
  /\ UNCHANGED NotTokens

\* return tokens, after the third pass
TokenReturn ==
  /\ dt.pc = "pass"
  /\ dt.pass = 3
  /\ dt' = [ dt EXCEPT !.pc = "returned" ]
  /\ UNCHANGED NotTokens

TokenNext ==
  \/ TokenRead
  \/ TokenPass
  \/ TokenItem
  \/ TokenPassEnd
  \/ TokenReturn

\* the parser runs on its own: each step is taken when it is the next one
TokenSpec == TokenInit /\ [][TokenNext]_vars /\ WF_vars(TokenNext)
(***************************************************************************)
(* Properties                                                              *)
(***************************************************************************)

\* the last data row read
LastRow == rows[Len(rows)]

\* the key a data row is stored under, None when the row is skipped
RowKey(row) ==
  IF KeyRaw(fields, row) = << >> THEN None
  ELSE IF entry = "price_alerts"
       THEN IF KeyRaw(fields, row) \in Range(PRICE_ALERTS_KEYS) THEN KeyRaw(fields, row) ELSE None
       ELSE InternalKey(UseModuleFormat(fields), ModuleRaw(fields, row), KeyRaw(fields, row))

\* the last row of the spreadsheet that is stored under key k
LastRowOf(k) == rows[SetMax({ i \in 1..Len(rows) : RowKey(rows[i]) = k })]

\* the spreadsheet cell of (row, loc) is blank: empty, whitespace or no column
CellBlank(row, loc) == strip(RawValue(fields, locale_to_header, row, loc)) = << >>

\* the row's cell in the column that stands for en in this spreadsheet
EnCell(row) == strip(RawValue(fields, LocaleToHeader(<< S_en >>, fields), row, S_en))

\* load_translations (either script) has just returned its tables
Returned == pc \in { "loaded", "pa_loaded" }

\* the text between  {%- capture k -%}  and the next  {%- endcapture -%}
CaptureOf(cc, k) ==
  LET start == NextMatch(cc, LiquidTag(<< "capture"," " >> \o k), 1)
      stop == NextMatch(cc, LiquidTag(<< "endcapture" >>), start)
  IN  SubSeq(cc, start, stop - 1)

\* the line  {%- when "loc" -%}text  as it stands inside a capture
WhenLine(loc, text) ==
  << "\n"," "," "," "," " >> \o LiquidTag(<< "when"," ","\"" >> \o loc \o << "\"" >>)
  \o text \o << "\n" >>

\* C1: in the returned template, for every translatable key of the spreadsheet
\* and every requested locale whose cell is blank, the  when "<locale>"  clause
\* of that key carries the key's en cell of the spreadsheet.
C1_BackfillEndToEnd ==
  (pc = "done" /\ entry = "generate_template") =>
    \A k \in (DOMAIN translations) \cap Range(TRANSLATABLE_KEYS) :
      \A loc \in Range(locales) :
        CellBlank(LastRowOf(k), loc) =>
          contains(CaptureOf(fragments.content_captures, k),
                   WhenLine(loc, EscapeLiquidRaw(EnCell(LastRowOf(k)))))

InTableOrder(locs) == SelectSeq(LOCALE_COLUMNS, LAMBDA loc : loc \in Range(locs))

\* the first non-blank cell of the row over the locales of list locs, in order;
\* the row's en cell when all of them are blank
FirstNonBlank(row, locs) ==
  LET hits == { i \in 1..Len(locs) : ~CellBlank(row, locs[i]) }
  IN  IF hits = {} THEN EnCell(row)
      ELSE strip(RawValue(fields, locale_to_header, row, locs[SetMin(hits)]))

\* a row of generate_template's loader has just been stored under a key
RowStored ==
  /\ entry = "generate_template"
  /\ pc = "rows"
  /\ rows # << >>
  /\ internal_key # None

\* C3: the value stored for a structural row is the first non-blank cell in the
\* order of LOCALE_COLUMNS, or the row's en cell when all scanned cells are blank.
C3_StructuralTableOrder ==
  (RowStored /\ internal_key \in Range(STRUCTURE_KEYS)) =>
    structure[internal_key] = FirstNonBlank(LastRow, InTableOrder(locales))

\* C4: after a row is stored under a key, the key's table entry is the one the
\* row alone gives (the entry an empty table would get from it), whatever an
\* earlier row stored under the same key.
C4_LaterRowOverwrites ==
  RowStored =>
    LET vals == ValuesByLocale(fields, locale_to_header, locales, LastRow)
    IN  IF internal_key \in Range(STRUCTURE_KEYS)
        THEN structure[internal_key]
               = StoreStructure(EmptyDict, internal_key, vals, locales)[internal_key]
        ELSE translations[internal_key] = Backfill(vals, locales)

\* a cell with its white space removed and its letters in lower case
Fold(cell) ==
  LET t == SelectSeq(cell, LAMBDA c : ~IsSpace(c))
  IN  [ i \in 1..Len(t) |-> LowerChar(t[i]) ]

\* the i-th cell of a row, empty when the row is too short to have one
CellAt(row, i) == IF i <= Len(row) THEN row[i] ELSE << >>

\* the entries of MODULE_KEY_MAP a (module, field) pair reaches: the pair as
\* it is, else the pair with the underscores of the field taken out
SlotsOf(module, field) ==
  LET direct == { e \in MODULE_KEY_MAP : e[1] = module /\ e[2] = field }
      plain == SelectSeq(field, LAMBDA c : c # "_")
  IN  IF direct # {} THEN direct
      ELSE { e \in MODULE_KEY_MAP : e[1] = module /\ e[2] = plain }

\* the loop of generate_template's loader reads one more row of a
\* Module-format spreadsheet
ModuleRowStep ==
  /\ entry = "generate_template"
  /\ pc = "rows"
  /\ UseModuleFormat(fields)
  /\ Len(rows') = Len(rows) + 1

\* the row read by the step
NewRow == rows'[Len(rows')]

\* the row lacks a cell in the column of some requested locale
ShortRow(row) == \E loc \in Range(locales) : RawValue(fields, locale_to_header, row, loc) = None

C6_ModuleSlotMapper ==
  ( /\ entry = "generate_template" /\ raised = "none"
    /\ UseModuleFormat(fields) /\ rows # << >>
    /\ Fold(CellAt(LastRow, 1)) # << >> /\ Fold(CellAt(LastRow, 2)) # << >> ) =>
    LET m == Fold(CellAt(LastRow, 2))
        f == Fold(CellAt(LastRow, 1))
    IN  /\ IF SlotsOf(m, f) = {} THEN internal_key = None
           ELSE \A e \in SlotsOf(m, f) : internal_key = e[3]
        /\ (m = S_hero_module /\ f = S_headline) => internal_key = S_headline
        /\ (m = << "a","p","p","_","d","o","w","n","l","o","a","d","_","m","o","d","u","l","e" >>
              /\ f \in { << "c","o","l","o","u","r" >>, << "c","o","l","o","r" >> }) =>
             internal_key = << "a","p","p","_","d","o","w","n","l","o","a","d","_","c","o","l","o","u","r" >>

\* C6 witness: the row  Head_Line / "Hero_Module "  resolved to headline by
\* the second lookup, after case and space folding
C6_Witness ==
  /\ entry = "generate_template" /\ raised = "none"
  /\ UseModuleFormat(fields) /\ rows # << >>
  /\ CellAt(LastRow, 1) = << "H","e","a","d","_","L","i","n","e" >>
  /\ Fold(CellAt(LastRow, 2)) = S_hero_module
  /\ CellAt(LastRow, 2) # S_hero_module
  /\ internal_key = S_headline

\* a text with "_" written as "-"
Hyphened(s) == [ i \in 1..Len(s) |-> IF s[i] = "_" THEN "-" ELSE s[i] ]

\* the header the positional correspondence gives loc: the header standing
\* at loc's place of LOCALE_COLUMNS among the locale headers, trimmed
PositionalOf(loc) ==
  LET hs == LocaleHeaders(fields)
      at == { i \in 1..Len(LOCALE_COLUMNS) : LOCALE_COLUMNS[i] = loc }
  IN  IF at # {} /\ SetMin(at) <= Len(hs) /\ strip(hs[SetMin(at)]) # << >>
      THEN { strip(hs[SetMin(at)]) }
      ELSE {}

\* the correspondence between locales and headers, with names(loc) the
\* places of the locale headers that match loc by name
Corresponds(names(_)) ==
  \A loc \in Range(locales) :
    LET hs == LocaleHeaders(fields)
    IN  IF names(loc) # {}
        THEN loc \in DOMAIN locale_to_header /\ locale_to_header[loc] = hs[SetMin(names(loc))]
        ELSE IF PositionalOf(loc) # {}
             THEN loc \in DOMAIN locale_to_header /\ locale_to_header[loc] \in PositionalOf(loc)
             ELSE loc \notin DOMAIN locale_to_header

\* the loader of generate_template has built locale_to_header and is about
\* to read the first data row
HeadersMapped ==
  entry = "generate_template" /\ pc = "rows" /\ rows = << >>

\* C7 (as stated): each requested locale is mapped to the first header equal
\* to it up to letter case, white space and hyphen versus underscore; the
\* positional correspondence is used only when no header matches by name.
C7_FoldedBothSides ==
  HeadersMapped =>
    Corresponds(LAMBDA loc :
      { i \in 1..Len(LocaleHeaders(fields)) :
          /\ LocaleHeaders(fields)[i] # << >>
          /\ Hyphened(Fold(LocaleHeaders(fields)[i])) = Hyphened(Fold(loc)) })

\* C7 (amended): each requested locale, taken as it was requested, is mapped
\* to the first header whose folded form (letter case, white space) equals it
\* up to hyphen versus underscore; the positional correspondence is used only
\* when no header matches by name.
C7_FoldedHeaders ==
  HeadersMapped =>
    Corresponds(LAMBDA loc :
      { i \in 1..Len(LocaleHeaders(fields)) :
          /\ LocaleHeaders(fields)[i] # << >>
          /\ Hyphened(Fold(LocaleHeaders(fields)[i])) = Hyphened(loc) })

\* C7 witness: the headers " E N" and "Pt_Br<tab>" were matched by name
C7_Witness ==
  /\ HeadersMapped
  /\ fields = F_spaced
  /\ locale_to_header[S_en] = << " ","E"," ","N" >>
  /\ locale_to_header[<< "p","t","-","b","r" >>] = << "P","t","_","B","r","\t" >>

\* C8: generate_template on a path that does not exist raises
\* FileNotFoundError having read and produced nothing; load_translations on
\* a spreadsheet without a header row, or without data rows, returns two
\* empty tables and raises nothing.
C8_LoaderErrorOutcomes ==
  /\ (entry = "generate_template" /\ ~exists /\ pc # "start") =>
       /\ pc = "raised" /\ raised = "FileNotFoundError"
       /\ locales = None /\ rows = << >>
       /\ fragments = None /\ result = None
  /\ (entry = "generate_template" /\ pc = "loaded" /\ (fields = << >> \/ rows = << >>)) =>
       /\ DOMAIN translations = {} /\ DOMAIN structure = {}
       /\ raised = "none"

\* C8 witness: the call on a missing path has raised
C8_Witness ==
  entry = "generate_template" /\ ~exists /\ pc = "raised" /\ raised = "FileNotFoundError"

\* C9: a call of generate_template that has ended either raised with a
\* message or returned a string in which no placeholder token occurs.
C9_AllOrNothing ==
  entry = "generate_template" =>
    /\ pc = "raised" => message # ""
    /\ pc = "done" => \A p \in Placeholders : ~contains(result, p)

\* the replacements of generate_template, last one first
ReverseOrder == [ i \in 1..Len(SpliceOrder) |-> SpliceOrder[Len(SpliceOrder) + 1 - i] ]

\* C10: the returned string is also what the 14 replacements give when they
\* are applied in another order (here: the order of the code reversed).
C10_OrderIndependent ==
  (entry = "generate_template" /\ pc = "done") =>
    Splice(ReverseOrder, fragments) = result


(***************************************************************************)
(* Claims about the fragment builders and the handlers (SheetSpec)         *)
(***************************************************************************)

\* generate_template returned normally: the fragments are built
Built == pc = "done" /\ entry = "generate_template"

\* the fragment local of each optional module, in the order of TriggerKeys
ModuleFragments ==
  << "app_download", "hero_two_col", "icon_left_text_right_module",
     "text_left_image_right_module", "alternating_text_image_module" >>

\* C11: in every returned template, each of the five optional module fragments
\* (app-download, hero two-column, USP, USP feature, USP UI) is the empty
\* string exactly when its trigger key is absent from the TranslationTable,
\* whatever the StructureTable and the show_* options hold.
C11_PresenceAsEnablement ==
  Built =>
    \A i \in 1..5 :
      (fragments[ModuleFragments[i]] = << >>) <=> (TriggerKeys[i] \notin DOMAIN translations)

\* a run with the show_* flags off and image URLs in the StructureTable, whose
\* only trigger key is app_download_title (with a blank cell): that module
\* alone is emitted
C11_Witness ==
  /\ Built
  /\ env.show = HiddenEnv.show
  /\ S_hero_two_col_image_1_url \in DOMAIN structure
  /\ S_usp_1_icon_url \in DOMAIN structure
  /\ DOMAIN translations = { S_headline, S_app_download_title }
  /\ translations[S_app_download_title][S_en] = << >>
  /\ fragments.app_download # << >>
  /\ fragments.hero_two_col = << >>
  /\ fragments.icon_left_text_right_module = << >>

\* C12: in every returned template the body/CTA fragment (rows below image)
\* and the two-column hero fragment are never both non-empty, and the
\* body/CTA fragment is empty whenever hero_two_col_body_1_h2 is in the table.
C12_HeroLayoutsExclusive ==
  Built =>
    /\ ~(fragments.rows_below # << >> /\ fragments.hero_two_col # << >>)
    /\ S_hero_two_col_body_1_h2 \in DOMAIN translations => fragments.rows_below = << >>

\* body_1, body_2, cta_text and a non-empty cta_link are all supplied next to
\* hero_two_col_body_1_h2: only the two-column fragment is emitted
C12_Witness ==
  /\ Built
  /\ { S_body_1, S_body_2, S_cta_text, S_hero_two_col_body_1_h2 } \subseteq DOMAIN translations
  /\ Get(structure, S_cta_link, << >>) # << >>
  /\ fragments.rows_below = << >>
  /\ fragments.hero_two_col # << >>

\* the spreadsheet of the scenario: header Key,en, rows headline,Hello and
\* cta_text,Click me
ScenarioSheet == << << S_headline, T_Hello >>, << S_cta_text, T_Click_me >> >>

\* generate_template returned for the scenario's spreadsheet
ScenarioRun == Built /\ fields = F_one /\ include_locales = None /\ sheet = ScenarioSheet

\* the same spreadsheet with a third row  cta_link,vio.com/x
ScenarioRunWithLink ==
  Built /\ fields = F_one /\ sheet = ScenarioSheet \o << << S_cta_link, U_bare >> >>

\* the content of the first element of frag that opens with the markup open
\* and closes with the markup close; None when there is no such element
Inside(frag, open, close) ==
  LET i == NextMatch(frag, << open >>, 1)
      j == IF i = 0 THEN 0 ELSE NextMatch(frag, << close >>, i)
  IN  IF i = 0 \/ j = 0 THEN None ELSE SubSeq(frag, i + 1, j - 1)

\* C13 as stated: for the scenario's spreadsheet the rows-above-image fragment
\* holds the literal text Hello inside its h1 element, the rows-below-image
\* fragment holds a CTA link element containing the literal text Click me, and
\* the five module fragments are empty.
C13_LiteralScenario ==
  ScenarioRun =>
    /\ Inside(fragments.rows_above, "    <h1 32px>", "</h1>") # None
    /\ contains(Inside(fragments.rows_above, "    <h1 32px>", "</h1>"), T_Hello)
    /\ Inside(fragments.rows_below, "\" cta-style>", "</a>") # None
    /\ contains(Inside(fragments.rows_below, "\" cta-style>", "</a>"), T_Click_me)
    /\ \A i \in 1..5 : fragments[ModuleFragments[i]] = << >>

\* C13 (amended): for the scenario's spreadsheet the literal texts Hello and
\* Click me stand in the en clauses of the headline and cta_text captures; the
\* h1 element of the rows-above-image fragment holds the Liquid output
\* {{ headline | strip }}; the rows-below-image fragment is empty, there being
\* no cta_link (with a row cta_link,vio.com/x it holds a CTA link element whose
\* content is {{ cta_text | strip }}); and the five module fragments are empty.
C13_Scenario ==
  /\ ScenarioRun =>
       /\ contains(CaptureOf(fragments.content_captures, S_headline), WhenLine(S_en, T_Hello))
       /\ contains(CaptureOf(fragments.content_captures, S_cta_text), WhenLine(S_en, T_Click_me))
       /\ Inside(fragments.rows_above, "    <h1 32px>", "</h1>")
            = << "{","{"," ", "headline | strip", " ","}","}" >>
       /\ fragments.rows_below = << >>
       /\ \A i \in 1..5 : fragments[ModuleFragments[i]] = << >>
  /\ ScenarioRunWithLink =>
       /\ Inside(fragments.rows_below, "\" cta-style>", "</a>")
            = << "{","{"," ", "cta_text | strip", " ","}","}" >>
       /\ \A i \in 1..5 : fragments[ModuleFragments[i]] = << >>

\* the scenario's spreadsheet has been turned into a template
C13_Witness == ScenarioRun /\ result # None /\ raised = "none"

\* row i of the spreadsheet read is an image_url row: its key, taken through
\* the module map when the file has a module column, is image_url
ImageUrlRow(i) ==
  InternalKey(UseModuleFormat(fields), ModuleRaw(fields, rows[i]), KeyRaw(fields, rows[i])) = S_image_url

\* the spreadsheet read holds no image_url value: no image_url row, or only
\* image_url rows whose locale cells are all blank
NoImageUrlValue ==
  \A i \in 1..Len(rows) :
    ImageUrlRow(i) =>
      \A loc \in Range(locales) : strip(OrEmpty(RawValue(fields, locale_to_header, rows[i], loc))) = << >>

\* C14: a template returned for a spreadsheet without an image_url value has
\* an empty image-row fragment, whether or not image_url_mobile and
\* image_deeplink are supplied.
C14_NoImageNoRow ==
  (Built /\ NoImageUrlValue) => fragments.image_row = << >>

\* an image_url row with a blank cell next to image_url_mobile and
\* image_deeplink rows that carry URLs: the image row is empty
C14_Witness ==
  /\ Built
  /\ NoImageUrlValue
  /\ \E i \in 1..Len(rows) : ImageUrlRow(i)
  /\ Get(structure, S_image_url_mobile, << >>) # << >>
  /\ Get(structure, S_image_deeplink, << >>) # << >>
  /\ fragments.image_row = << >>

\* the URL text the claim expects for the cell text v: trimmed, and prefixed
\* with https:// when it holds no ://
ExpectedUrl(v) ==
  IF contains(strip(v), << ":","/","/" >>) THEN strip(v)
  ELSE << "h","t","t","p","s",":","/","/" >> \o strip(v)

\* struct holds a non-empty URL under key k
HasUrl(struct, k) == k \in DOMAIN struct /\ strip(struct[k]) # << >>

\* frag is empty, or holds the attribute  open<expected URL of struct[k]>"
ShowsUrl(frag, open, struct, k) ==
  (frag # << >> /\ HasUrl(struct, k)) =>
    contains(frag, << open >> \o HtmlEscape(ExpectedUrl(struct[k])) \o << "\" " >>)
    \/ contains(frag, << open >> \o HtmlEscape(ExpectedUrl(struct[k])) \o << "\" />" >>)
    \/ contains(frag, << open >> \o HtmlEscape(ExpectedUrl(struct[k])) \o << "\" target=_blank>" >>)
    \/ contains(frag, << open >> \o HtmlEscape(ExpectedUrl(struct[k])) \o << "\" target=_blank data-cio-tag=\"" >>)

\* C15: in every returned template each user-supplied URL that appears in the
\* markup (image_url, image_url_mobile, image_deeplink, cta_link, the hero
\* two-column image URLs, the USP icon and image URLs) appears trimmed, and
\* prefixed with https:// when it holds no :// separator.
C15_UrlsNormalised ==
  Built =>
    /\ ShowsUrl(fragments.image_row, "<img src=\"", structure, S_image_url)
    /\ ShowsUrl(fragments.image_row, "<img src=\"", structure, S_image_url_mobile)
    /\ ShowsUrl(fragments.image_row, "<a href=\"", structure, S_image_deeplink)
    /\ (S_cta_text \in DOMAIN translations) =>
         ShowsUrl(fragments.rows_below, "    <a href=\"", structure, S_cta_link)
    /\ ShowsUrl(fragments.hero_two_col, "<a href=\"", structure, S_cta_link)
    /\ \A k \in { S_hero_two_col_image_1_url, S_hero_two_col_image_2_url } :
         ShowsUrl(fragments.hero_two_col, "<img src=\"", structure, k)
    /\ ShowsUrl(fragments.icon_left_text_right_module, "<img src=\"", structure, S_usp_1_icon_url)
    /\ ShowsUrl(fragments.text_left_image_right_module, "<img src=\"", structure, S_usp_feature_1_image_url)
    /\ ShowsUrl(fragments.alternating_text_image_module, "<img src=\"", structure, S_usp_ui_1_image_url)

\* frag holds an <img> element whose src attribute is empty
EmptySrc(frag) ==
  contains(frag, << "<img src=\"", "\" />" >>) \/ contains(frag, << "<img src=\"", "\" " >>)

\* C16: in every returned template the rows-below-image, image-row and hero
\* two-column fragments hold no <img> with an empty src, and hold no CTA link
\* element when cta_link is empty after trimming.
C16_EmptyUrlsAbsent ==
  Built =>
    /\ ~EmptySrc(fragments.image_row)
    /\ ~EmptySrc(fragments.rows_below)
    /\ ~EmptySrc(fragments.hero_two_col)
    /\ ~HasUrl(structure, S_cta_link) =>
         /\ ~contains(fragments.rows_below, << "    <a href=\"" >>)
         /\ ~contains(fragments.hero_two_col, << "<a href=\"" >>)

\* the two expressions _escape_liquid_raw writes: {{ '{%' }} and {{ '%}' }}
LitOpen == << "{","{"," ","'","{","%","'"," ","}","}" >>

LitClose == << "{","{"," ","'","%","}","'"," ","}","}" >>

\* s with each of the two expressions taken as one opaque token
Neutralised(s) == replace(replace(s, LitOpen, << "<literal>" >>), LitClose, << "<literal>" >>)

\* the Liquid tags of s in order: each runs from a {% to the next %} (to the
\* end of s when there is none)
RECURSIVE TagsFrom(_, _)
TagsFrom(s, from) ==
  LET i == IF from > Len(s) THEN 0 ELSE NextMatch(s, << "{","%" >>, from)
      j == IF i = 0 \/ i + 2 > Len(s) THEN 0 ELSE NextMatch(s, << "%","}" >>, i + 2)
  IN  IF i = 0 THEN << >>
      ELSE IF j = 0 THEN << SubSeq(s, i, Len(s)) >>
      ELSE << SubSeq(s, i, j + 1) >> \o TagsFrom(s, j + 2)

Tags(s) == TagsFrom(s, 1)

\* the number of tag closers %} in s
Closers(s) == Cardinality({ i \in 1..(Len(s) - 1) : s[i] = "%" /\ s[i + 1] = "}" })

\* the table with every piece of copy replaced by the plain text x
Benign(trans) == [ k \in DOMAIN trans |-> [ l \in DOMAIN trans[k] |-> << "x" >> ] ]

\* C17: in every returned template, once the expressions {{ '{%' }} and
\* {{ '%}' }} written by the escaping pass are taken as opaque tokens, the
\* content-captures fragment holds exactly the Liquid tags it holds for plain
\* copy (capture, case, when, else, endcase, endcapture per key) and no other
\* {% or %}: no copy opens, closes or forms a tag.
C17_CopyFormsNoTag ==
  Built =>
    LET cc == Neutralised(fragments.content_captures)
    IN  /\ Tags(cc) = Tags(build_content_captures(Benign(translations), locales))
        /\ Closers(cc) = Len(Tags(cc))

\* the overlapping form {%} as the headline: its capture holds {{ '{%' }}}
C17_Witness ==
  /\ Built
  /\ S_headline \in DOMAIN translations
  /\ translations[S_headline][S_en] = << "{","%","}" >>
  /\ contains(fragments.content_captures, LitOpen \o << "}", "\n" >>)

\* v holds one of the characters & < > "
Special(v) == \E i \in 1..Len(v) : v[i] \in { "&", "<", ">", "\"" }

\* the fragments that are HTML markup
MarkupFragments ==
  { "rows_above", "image_row", "rows_below", "hero_two_col", "app_download",
    "icon_left_text_right_module", "text_left_image_right_module",
    "alternating_text_image_module" }

\* the user-supplied values of the run that hold one of & < > " : the en copy
\* of each key and each structural value, trimmed
SpecialValues ==
  { strip(translations[k][S_en]) : k \in { x \in DOMAIN translations :
        S_en \in DOMAIN translations[x] /\ Special(translations[x][S_en]) } }
    \cup { strip(structure[k]) : k \in { x \in DOMAIN structure : Special(structure[x]) } }

\* C18: no user-supplied value that holds one of & < > " stands unescaped in
\* an HTML fragment of the returned template or in the handler's preview HTML.
C18_HtmlEscaped ==
  /\ Built => \A v \in SpecialValues : \A f \in MarkupFragments : ~contains(fragments[f], v)
  /\ preview # None => \A v \in SpecialValues : ~contains(preview, v)

\* the placeholder MODULE_TEMPLATE_ROWS gives for the key cell of a module
PlaceholderOf(mod, csv_key) ==
  (CHOOSE e \in Range(MODULE_TEMPLATE_ROWS[mod]) : e[1] = csv_key)[2]

\* the internal key a template row resolves to, None when it resolves to none
TemplateRowKey(row) == InternalKey(TRUE, NormCell(row[2]), NormCell(row[1]))

\* the value the loaded tables hold for a key: the single value of a
\* structural key, the en entry of a translatable one
LoadedValue(k) ==
  IF k \in Range(STRUCTURE_KEYS) THEN Get(structure, k, None)
  ELSE IF k \in DOMAIN translations THEN Get(translations[k], S_en, None)
  ELSE None

\* the sheet of round trip c has been read completely
RoundTripLoaded(c) ==
  /\ pc = "loaded"
  /\ caller = "none"
  /\ fields = TemplateOf(c).header
  /\ sheet = TemplateSheet(c)

\* row i of the sheet belongs to a field no filled row resolves to
Untouched(c, i) ==
  \A j \in Touched(c.fill) : j <= Len(sheet) => TemplateRowKey(sheet[j]) # TemplateRowKey(sheet[i])

\* C19: round trip of the input template. For every module selection and
\* locale list, after the generated CSV (some en cells filled in) has been
\* loaded, every row resolves to a key and every untouched field has exactly
\* its placeholder of MODULE_TEMPLATE_ROWS as value.
C19_TemplateRoundTrip ==
  \A c \in TemplateCases :
    RoundTripLoaded(c) =>
      \A i \in 1..Len(sheet) :
        /\ TemplateRowKey(sheet[i]) # None
        /\ Untouched(c, i) =>
             LoadedValue(TemplateRowKey(sheet[i])) = PlaceholderOf(sheet[i][2], sheet[i][1])

\* C20: a handler that staged a spreadsheet in a temporary file (the upload
\* handler of the UI, get_module_preview_html) leaves no staged file behind:
\* once it has finished, whether after normal completion, a
\* FileNotFoundError, the exit raised for empty tables or any other
\* exception, the file does not exist.
C20_TempFileCleanup ==
  (caller # "none" /\ pc = "finished") => ~exists

\* the upload handler has finished after the exit raised for empty tables,
\* with the file written and read before
C20_Witness ==
  /\ caller = "tab_generate"
  /\ pc = "finished"
  /\ raised = "SystemExit"
  /\ rows # << >>
  /\ ~exists

(***************************************************************************)
(* Claims on purity, the command line, locale choice and the preview       *)
(***************************************************************************)

\* C21: a call of generate_template returns the same template whatever
\* files lie beside the script.  The call repeated with the template of the
\* first call saved there as full_email_template.liquid returns that
\* template again, and a call with an empty file there writes the terms
\* defaults every call without the file writes.
C21_PureGeneration ==
  (Built /\ caller = "none") =>
    /\ env.liquid \notin { None, << >> } => result = env.liquid
    /\ env.liquid = << >> => contains(result, TermsFallback)

\* the content keys the generator knows
KnownKeys == Range(TRANSLATABLE_KEYS) \cup Range(STRUCTURE_KEYS)

\* the spreadsheet yields no recognized row: no row has a known content key,
\* taken through the module map when the file has a module column
NoRecognizedRows ==
  \A i \in 1..Len(sheet) :
    sheet[i] = << >>
      \/ InternalKey(UseModuleFormat(fields), ModuleRaw(fields, sheet[i]), KeyRaw(fields, sheet[i]))
           \notin KnownKeys

\* C22: when the spreadsheet path does not exist, or the spreadsheet yields
\* no recognized row, the command line ends with a non-zero status and a
\* message and has written no template to its output.
C22_CliFailure ==
  (caller = "main" /\ pc = "exited" /\ (~exists \/ NoRecognizedRows))
    => (status # 0 /\ message # "" /\ stdout = << >>)

\* the sidebar has resolved its list
Resolved == caller = "tab_template" /\ options.include_locales # None

\* position of the first occurrence of x in the list xs
FirstAt(xs, x) == SetMin({ i \in 1..Len(xs) : xs[i] = x })

\* the custom branch was taken: preset custom and a custom list that is not empty
CustomTaken == options.preset = << "c","u","s","t","o","m" >> /\ options.custom # << >>

\* C23: for every preset and custom list the resolved list is not empty,
\* contains en, has no code twice and holds only codes of LOCALE_COLUMNS; a
\* custom list keeps the relative order of its known codes, with en put
\* first when it was not selected; a preset that is not known and an empty
\* custom list give English only.
C23_ResolvedLocales ==
  Resolved =>
    LET r == options.include_locales
        c == options.custom
        known == Range(c) \cap Range(LOCALE_COLUMNS)
    IN  /\ r # << >>
        /\ S_en \in Range(r)
        /\ \A i, j \in 1..Len(r) : r[i] = r[j] => i = j
        /\ Range(r) \subseteq Range(LOCALE_COLUMNS)
        /\ CustomTaken =>
             /\ Range(r) = known \cup { S_en }
             /\ \A a, b \in known : FirstAt(c, a) < FirstAt(c, b) => FirstAt(r, a) < FirstAt(r, b)
             /\ S_en \notin Range(c) => r[1] = S_en
        /\ (options.preset \notin { << "e","n","_","o","n","l","y" >>, << "t","o","p","_","5" >>, << "g","l","o","b","a","l" >>, << "c","u","s","t","o","m" >> }
              \/ (options.preset = << "c","u","s","t","o","m" >> /\ options.custom = << >>))
             => r = << S_en >>

\* a custom list without en, with a code twice and with a code that is not
\* in LOCALE_COLUMNS has been resolved
C23_Witness ==
  /\ Resolved
  /\ CustomTaken
  /\ S_en \notin Range(options.custom)
  /\ Len(options.include_locales) > 1
  /\ Len(options.include_locales) < Len(options.custom)

\* the template tab has shown the preview and offers the blank CSV
Offered == caller = "tab_template" /\ pc = "offered"

\* C30: every module the template tab lets the user select is recognized by
\* generate_standard_input_template and by get_module_preview_html: the k-th
\* selected module has rows numbered k in the blank CSV and in the sheet the
\* preview is rendered from.
C30_SelectableModulesRecognized ==
  Offered =>
    LET modules == UiModules(options.widgets)
    IN  \A k \in 1..Len(modules) :
          /\ \E i \in 1..Len(download.rows) :
               download.rows[i][2] = modules[k] /\ download.rows[i][3] = Str(k)
          /\ \E i \in 1..Len(sheet) :
               sheet[i][2] = modules[k] /\ sheet[i][3] = Str(k)

\* load_translations has returned the tables of the spreadsheet
Loaded == entry = "generate_template" /\ pc \in { "loaded", "done" } /\ raised = "none"

\* the spreadsheet has no column named for loc
ColumnAbsent(loc) == NamedHeader(loc, LocaleHeaders(fields)) = None

\* C24: load_translations never assigns two requested locales to the same
\* header column, and a requested locale the spreadsheet has no column for
\* gets the en value of every translatable key, never the text of a column
\* named for another locale.
C24_NoForeignColumn ==
  Loaded =>
    /\ \A a, b \in DOMAIN locale_to_header :
         a # b => locale_to_header[a] # locale_to_header[b]
    /\ S_en \in Range(locales) =>
         \A loc \in Range(locales) : \A key \in DOMAIN translations :
           ColumnAbsent(loc) => translations[key][loc] = translations[key][S_en]

\* the header row has the Module shape: at least three columns, the second
\* module and the third module_index, case and surrounding whitespace
\* ignored, and spaces ignored in the third
ModuleShape(flds) ==
  /\ Len(flds) >= 3
  /\ lower(strip(flds[2])) = << "m","o","d","u","l","e" >>
  /\ lower(SelectSeq(strip(flds[3]), LAMBDA c : c # " ")) = << "m","o","d","u","l","e","_","i","n","d","e","x" >>

\* the header cells from 0-based index start on
ColumnsFrom(flds, start) == { strip(flds[i]) : i \in (start + 1)..Len(flds) }

\* the format chosen for the file read is the one the header shape asks
\* for, and every column a locale is mapped to is a locale column of it
ShapeChosen ==
  /\ UseModuleFormat(fields) <=> ModuleShape(fields)
  /\ \A loc \in DOMAIN locale_to_header :
       strip(locale_to_header[loc]) \in ColumnsFrom(fields, IF ModuleShape(fields) THEN 3 ELSE 1)

\* the call inferred its locales from the header row
Inferred == Loaded /\ include_locales = None /\ fields # << >>

\* get_csv_locales finds loc by name in the header row
FoundByName(loc) ==
  \E h \in Range(LocaleHeaders(fields)) : strip(h) # << >> /\ CsvLocaleMatches(loc, strip(h))

\* C25 as stated: the Module format is chosen exactly for headers of the
\* Module shape, the legacy format otherwise, and every locale
\* get_csv_locales infers is mapped to a column by load_translations.
C25_HeaderShape ==
  Inferred =>
    /\ ShapeChosen
    /\ \A loc \in Range(get_csv_locales(fields)) : loc \in DOMAIN locale_to_header

\* C25 amended: the same, for the locales get_csv_locales finds by name in
\* the header row; the default en it returns when it finds none need not
\* have a column.
C25_HeaderShapeNamed ==
  Inferred =>
    /\ ShapeChosen
    /\ locales = get_csv_locales(fields)
    /\ \A loc \in Range(locales) : FoundByName(loc) => loc \in DOMAIN locale_to_header

\* a header of the Module shape written with capitals and spaces has been
\* read, and its locale column found
C25_Witness ==
  /\ Inferred
  /\ ModuleShape(fields)
  /\ fields[2] # << "m","o","d","u","l","e" >>
  /\ fields[3] # << "m","o","d","u","l","e","_","i","n","d","e","x" >>
  /\ S_en \in DOMAIN locale_to_header

\* the opening tag of the capture block of key
OpenCapture(key) == LiquidTag(<< "capture"," " >> \o key)

\* number of places where pat occurs in s
CountOf(s, pat) ==
  Cardinality({ i \in 1..(Len(s) - Len(pat) + 1) : s[i] = pat[1] /\ SubSeq(s, i, i + Len(pat) - 1) = pat })

\* the capture block of key in the text cc, from its opening tag up to its endcapture
BlockOf(cc, key) ==
  LET i == NextMatch(cc, OpenCapture(key), 1)
  IN  SubSeq(cc, i, NextMatch(cc, LiquidTag(<< "endcapture" >>), i) - 1)

\* the locales of the when clauses of a block, in the order written
RECURSIVE WhenLocales(_, _)
WhenLocales(block, from) ==
  LET open == << "{","%","-"," ","when"," ","\"" >>
      i == IF from > Len(block) THEN 0 ELSE NextMatch(block, open, from)
      q == NextMatch(block, << "\"" >>, i + Len(open))
  IN  IF i = 0 THEN << >>
      ELSE << SubSeq(block, i + Len(open), q - 1) >> \o WhenLocales(block, q)

\* the text of the else clause of a block, which ends the case
ElseValue(block) ==
  LET tag == LiquidTag(<< "else" >>)
      i == NextMatch(block, tag, 1)
      j == NextMatch(block, << "\n"," "," " >> \o LiquidTag(<< "endcase" >>), i)
  IN  SubSeq(block, i + Len(tag), j - 1)

\* the capture block of key is there once, with one when clause per requested
\* locale in the order of the list, then one else clause with the en value
OneBlock(key) ==
  LET cc == fragments.content_captures
      block == BlockOf(cc, key)
      whens == WhenLocales(block, 1)
  IN  /\ CountOf(cc, OpenCapture(key)) = 1
      /\ whens = locales
      /\ CountOf(block, LiquidTag(<< "else" >>)) = 1
      /\ NextMatch(block, LiquidTag(<< "else" >>), 1)
           > NextMatch(block, << "when"," ","\"" >> \o locales[Len(locales)], 1)
      /\ ElseValue(block) = EscapeLiquidRaw(strip(Get(translations[key], S_en, << >>)))

\* the keys that can be met: the known ones and the ones of the sheet read
KeysMet == Range(TRANSLATABLE_KEYS) \cup Range(STRUCTURE_KEYS) \cup DOMAIN translations

FileMap == DictFrom(dt.file, 1, << >>)

\* v refers to a token of the map d
IsRef(d, v) == StartsWithToken(v) /\ v \in Keys(d)

\* the value reached from v by following at most n references in d
RECURSIVE ChainEnd(_, _, _)
ChainEnd(d, v, n) ==
  IF n > 0 /\ IsRef(d, v) THEN ChainEnd(d, Lookup(d, v), n - 1) ELSE v

\* token k lies on a reference cycle of d: following references from it
\* leads back to it
OnCycle(d, k) ==
  \E n \in 1..Len(d) :
    /\ \A m \in 0..(n - 1) : IsRef(d, ChainEnd(d, Lookup(d, k), m))
    /\ ChainEnd(d, Lookup(d, k), n - 1) = k

\* _parse_design_tokens has returned the map of an existing file
Parsed == dt.pc = "returned" /\ exists

\* what holds of the map returned
ParsedRight ==
  /\ dt.pass = 3
  /\ \A k \in Keys(FileMap) :
       /\ OnCycle(FileMap, k) => IsRef(dt.tokens, Lookup(dt.tokens, k))
       /\ ~IsRef(FileMap, ChainEnd(FileMap, Lookup(FileMap, k), 3))
            => Lookup(dt.tokens, k) = ChainEnd(FileMap, Lookup(FileMap, k), 3)

\* C27: parsing the design tokens always ends, after exactly three passes
\* over the token map, also for files with reference cycles; a token on a
\* cycle then still has a token name as its value, and a token at the head
\* of a chain of at most three references has the value the chain ends in,
\* in whatever order the file lists the tokens.
C27_TokenParsing == [](Parsed => ParsedRight) /\ <>(dt.pc = "returned")

\* the chain of three references, listed head first, has been resolved
C27_Witness ==
  /\ Parsed
  /\ dt.file = << << Tok("a"), Tok("b") >>, << Tok("b"), Tok("c") >>, << Tok("c"), Tok("d") >>,
                  << Tok("d"), Lit("2") >> >>
  /\ Lookup(dt.tokens, Tok("a")) = Lit("2")

\* a handler has its preview of the template generate_template returned
Previewed == caller \in Handlers /\ pc = "previewed"

\* the number of keys of ks the TranslationTable holds
Present(ks) == Cardinality({ k \in ks : k \in DOMAIN translations })

\* the three USP modules, whose blocks have the same body
UspTriggers == { S_usp_title, S_usp_feature_title, S_usp_ui_title }

\* (first and last atom of the body, how often the body has to be in the preview) of the
\* eight guarded blocks, the USP blocks counted together
GuardedBodies ==
  << << "<header logo row>", "<header logo row>", IF PreviewFlags(env)[1] THEN 1 ELSE 0 >>,
     << "<footer>", "</footer>", IF PreviewFlags(env)[2] THEN 1 ELSE 0 >>,
     << "<terms>", "</terms>", IF PreviewFlags(env)[3] THEN 1 ELSE 0 >>,
     << "<app card>", "</app card>", Present({ S_app_download_title }) >>,
     << "<feature text 1>", "<feature text 4>", Present({ S_hero_two_col_body_1_h2 }) >>,
     << "<usp title>", "<usp row 3>", Present(UspTriggers) >> >>

\* every guarded body is in the preview as often as its flag or trigger key
\* says, whole, and no if or endif tag is left
ConditionalsResolved ==
  /\ \A n \in 1..Len(GuardedBodies) :
       /\ CountOf(preview, << GuardedBodies[n][1] >>) = GuardedBodies[n][3]
       /\ CountOf(preview, << GuardedBodies[n][2] >>) = GuardedBodies[n][3]
  /\ ~contains(preview, << "{","%","-"," ","if"," " >>)
  /\ ~contains(preview, LiquidTag(<< "endif" >>))

\* no {{ ... }} is in the preview
NoExpression ==
  ~\E i, j \in 1..Len(preview) :
     /\ i + 2 <= j /\ j < Len(preview)
     /\ preview[i] = "{" /\ preview[i + 1] = "{"
     /\ preview[j] = "}" /\ preview[j + 1] = "}"

\* v holds no Liquid tag and no closing brace on its own
Plain(v) ==
  /\ ~contains(v, << "{","%" >>)
  /\ \A i \in 1..Len(v) :
       v[i] = "}" => \/ (i > 1 /\ v[i - 1] = "}")
                     \/ (i < Len(v) /\ v[i + 1] = "}")

\* no copy value of the sheet holds Liquid of its own
PlainCopy ==
  \A k \in DOMAIN translations : \A l \in DOMAIN translations[k] : Plain(translations[k][l])

AfterLoad ==
  /\ entry = "generate_template"
  /\ pc \in { "loaded", "done", "previewed", "finished", "exited" }

====
